---- MODULE Spec2Model ----
(***************************************************************************)
(* chargedrift: merchant resolution, recurring-charge detection and price  *)
(* drift over an abstract relational store (the Supabase/Postgres tables   *)
(* of supabase/migrations/001_initial_schema.sql).                         *)
(*                                                                         *)
(* Text is a sequence of one-character strings.  Money is an integer       *)
(* number of cents (DECIMAL(12,2)), a date is an integer day number.       *)
(* All store queries of the program filter on user_id; the model holds the *)
(* rows of one user.                                                       *)
(***************************************************************************)
EXTENDS Integers, Sequences, FiniteSets, TLC

(***************************************************************************)
(* Characters and JavaScript string helpers                                *)
(***************************************************************************)
LowerChars == <<"a","b","c","d","e","f","g","h","i","j","k","l","m",
                "n","o","p","q","r","s","t","u","v","w","x","y","z">>
UpperChars == <<"A","B","C","D","E","F","G","H","I","J","K","L","M",
                "N","O","P","Q","R","S","T","U","V","W","X","Y","Z">>
LowerSet == {LowerChars[i] : i \in 1..26}
UpperSet == {UpperChars[i] : i \in 1..26}
DigitSet == {"0","1","2","3","4","5","6","7","8","9"}
\* the regular expression class \s
SpaceSet == {" ", "\t"}

toUpperChar(c) ==
  IF c \in LowerSet THEN UpperChars[CHOOSE i \in 1..26 : LowerChars[i] = c] ELSE c

toLowerChar(c) ==
  IF c \in UpperSet THEN LowerChars[CHOOSE i \in 1..26 : UpperChars[i] = c] ELSE c

toUpperCase(s) == [i \in 1..Len(s) |-> toUpperChar(s[i])]

toLowerCase(s) == [i \in 1..Len(s) |-> toLowerChar(s[i])]

\* String.prototype.trim
RECURSIVE trimStart(_)
trimStart(s) ==
  IF s # <<>> /\ Head(s) \in SpaceSet THEN trimStart(Tail(s)) ELSE s

RECURSIVE trimEnd(_)
trimEnd(s) ==
  IF s # <<>> /\ s[Len(s)] \in SpaceSet THEN trimEnd(SubSeq(s, 1, Len(s) - 1)) ELSE s

trim(s) == trimEnd(trimStart(s))

\* String.prototype.includes
includes(s, key) ==
  \E i \in 1..(Len(s) - Len(key) + 1) : SubSeq(s, i, i + Len(key) - 1) = key

\* s.replace(/[^a-z0-9]/g, '')
RECURSIVE stripNonAlnum(_)
stripNonAlnum(s) ==
  IF s = <<>> THEN <<>>
  ELSE (IF Head(s) \in LowerSet \cup DigitSet THEN <<Head(s)>> ELSE <<>>)
         \o stripNonAlnum(Tail(s))

(***************************************************************************)
(* Regular expressions of STRIP_PATTERNS.  A pattern is a list of          *)
(* alternatives; an alternative is a list of items (character class with   *)
(* repetition lo..hi, hi = -1 for unbounded).  In every pattern of the     *)
(* source a repeated class is followed by a disjoint class or by the end,  *)
(* so greedy matching without backtracking gives the engine's result.      *)
(***************************************************************************)
Item(cls, lo, hi) == [cls |-> cls, lo |-> lo, hi |-> hi]

One(c) == Item({c}, 1, 1)

Word(w) == [i \in 1..Len(w) |-> One(w[i])]

Pattern(alts, atStart, atEnd, global) ==
  [alts |-> alts, atStart |-> atStart, atEnd |-> atEnd, global |-> global]

\* number of consecutive characters of s from pos that lie in cls, at most hi
RECURSIVE RunLen(_, _, _, _)
RunLen(s, pos, cls, hi) ==
  IF hi = 0 \/ pos > Len(s) \/ s[pos] \notin cls THEN 0
  ELSE 1 + RunLen(s, pos + 1, cls, hi - 1)

\* position after the match of items[k..] at pos, 0 when there is none
RECURSIVE MatchItems(_, _, _, _)
MatchItems(s, pos, items, k) ==
  IF k > Len(items) THEN pos
  ELSE LET n == RunLen(s, pos, items[k].cls, items[k].hi)
       IN  IF n < items[k].lo THEN 0 ELSE MatchItems(s, pos + n, items, k + 1)

\* first alternative, in source order, that matches at pos
RECURSIVE MatchAlt(_, _, _, _)
MatchAlt(s, pos, pat, a) ==
  IF a > Len(pat.alts) THEN 0
  ELSE LET e == MatchItems(s, pos, pat.alts[a], 1)
       IN  IF e # 0 /\ (pat.atEnd => e = Len(s) + 1) THEN e
           ELSE MatchAlt(s, pos, pat, a + 1)

\* s.replace(pat, '') from position pos on: the leftmost match is removed,
\* and every later match too when the pattern has the g flag
RECURSIVE ReplaceFrom(_, _, _)
ReplaceFrom(s, pos, pat) ==
  IF pos > Len(s) THEN <<>>
  ELSE LET e == IF pat.atStart /\ pos # 1 THEN 0 ELSE MatchAlt(s, pos, pat, 1)
       IN  IF e > pos
           THEN IF pat.global THEN ReplaceFrom(s, e, pat)
                ELSE SubSeq(s, e, Len(s))
           ELSE <<s[pos]>> \o ReplaceFrom(s, pos + 1, pat)

replace(s, pat) == ReplaceFrom(s, 1, pat)

WsStar == Item(SpaceSet, 0, -1)
WsPlus == Item(SpaceSet, 1, -1)
Digits(lo, hi) == Item(DigitSet, lo, hi)

\* /\s+WORD\s*$/i (the text is already upper case)
SuffixWord(w) == Pattern(<< <<WsPlus>> \o Word(w) \o <<WsStar>> >>, FALSE, TRUE, FALSE)

STRIP_PATTERNS ==
  << Pattern(<< <<WsStar, Item({"*"}, 1, -1), WsStar>> >>, FALSE, FALSE, TRUE),
     Pattern(<< <<WsStar, One("#"), Digits(1, -1), WsStar>> >>, FALSE, FALSE, TRUE),
     Pattern(<< <<WsStar, One("-"), WsStar, Digits(4, -1)>> >>, FALSE, FALSE, TRUE),
     Pattern(<< <<WsPlus, Digits(2, 4), One("/"), Digits(2, 4)>> >>, FALSE, TRUE, FALSE),
     Pattern(<< <<WsPlus>> \o Word(<<"L","L","C">>) \o <<Item({"."}, 0, 1)>>,
                <<WsPlus>> \o Word(<<"I","N","C">>) \o <<Item({"."}, 0, 1)>>,
                <<WsPlus>> \o Word(<<"C","O","R","P">>) \o <<Item({"."}, 0, 1)>>,
                <<WsPlus>> \o Word(<<"C","O">>) \o <<Item({"."}, 0, 1)>>,
                <<WsPlus>> \o Word(<<"L","T","D">>) \o <<Item({"."}, 0, 1)>> >>,
             FALSE, TRUE, FALSE),
     SuffixWord(<<"P","U","R","C","H","A","S","E">>),
     SuffixWord(<<"P","A","Y","M","E","N","T">>),
     SuffixWord(<<"R","E","C","U","R","R","I","N","G">>),
     SuffixWord(<<"S","U","B","S","C","R","I","P","T","I","O","N">>),
     Pattern(<< Word(<<"S","Q">>) \o <<WsStar, One("*")>>,
                Word(<<"T","S","T">>) \o <<WsStar, One("*")>>,
                Word(<<"S","P">>) \o <<WsPlus>> >>, TRUE, FALSE, FALSE),
     Pattern(<< <<WsPlus, Digits(3, 3), One("-"), Digits(3, 3), One("-"), Digits(4, 4)>> >>,
             FALSE, TRUE, FALSE),
     Pattern(<< <<WsPlus, Item(UpperSet, 2, 2), WsStar>> >>, FALSE, TRUE, FALSE),
     Pattern(<< <<One(".")>> \o Word(<<"C","O","M">>),
                <<One(".")>> \o Word(<<"N","E","T">>),
                <<One(".")>> \o Word(<<"O","R","G">>),
                <<One(".")>> \o Word(<<"I","O">>) >>, FALSE, TRUE, FALSE),
     SuffixWord(<<"A","U","T","O","P","A","Y">>),
     Pattern(<< <<WsPlus>> \o Word(<<"B","I","L","L">>) \o <<WsPlus>>
                  \o Word(<<"P","A","Y">>) \o <<WsStar>>,
                <<WsPlus>> \o Word(<<"B","I","L","L">>) \o <<WsPlus>>
                  \o Word(<<"P","A","Y","M","E","N","T">>) \o <<WsStar>> >>,
             FALSE, TRUE, FALSE) >>

KNOWN_MERCHANTS ==
  << <<<<"n", "e", "t", "f", "l", "i", "x">>,
       <<"N", "e", "t", "f", "l", "i", "x">>>>,
     <<<<"s", "p", "o", "t", "i", "f", "y">>,
       <<"S", "p", "o", "t", "i", "f", "y">>>>,
     <<<<"a", "p", "p", "l", "e">>,
       <<"A", "p", "p", "l", "e">>>>,
     <<<<"a", "m", "a", "z", "o", "n">>,
       <<"A", "m", "a", "z", "o", "n">>>>,
     <<<<"h", "u", "l", "u">>,
       <<"H", "u", "l", "u">>>>,
     <<<<"d", "i", "s", "n", "e", "y">>,
       <<"D", "i", "s", "n", "e", "y", "+">>>>,
     <<<<"d", "i", "s", "n", "e", "y", "p", "l", "u", "s">>,
       <<"D", "i", "s", "n", "e", "y", "+">>>>,
     <<<<"h", "b", "o">>,
       <<"H", "B", "O", " ", "M", "a", "x">>>>,
     <<<<"y", "o", "u", "t", "u", "b", "e">>,
       <<"Y", "o", "u", "T", "u", "b", "e">>>>,
     <<<<"g", "o", "o", "g", "l", "e">>,
       <<"G", "o", "o", "g", "l", "e">>>>,
     <<<<"m", "i", "c", "r", "o", "s", "o", "f", "t">>,
       <<"M", "i", "c", "r", "o", "s", "o", "f", "t">>>>,
     <<<<"a", "d", "o", "b", "e">>,
       <<"A", "d", "o", "b", "e">>>>,
     <<<<"d", "r", "o", "p", "b", "o", "x">>,
       <<"D", "r", "o", "p", "b", "o", "x">>>>,
     <<<<"g", "i", "t", "h", "u", "b">>,
       <<"G", "i", "t", "H", "u", "b">>>>,
     <<<<"s", "l", "a", "c", "k">>,
       <<"S", "l", "a", "c", "k">>>>,
     <<<<"z", "o", "o", "m">>,
       <<"Z", "o", "o", "m">>>>,
     <<<<"o", "p", "e", "n", "a", "i">>,
       <<"O", "p", "e", "n", "A", "I">>>>,
     <<<<"c", "h", "a", "t", "g", "p", "t">>,
       <<"O", "p", "e", "n", "A", "I">>>>,
     <<<<"n", "o", "t", "i", "o", "n">>,
       <<"N", "o", "t", "i", "o", "n">>>>,
     <<<<"f", "i", "g", "m", "a">>,
       <<"F", "i", "g", "m", "a">>>>,
     <<<<"c", "a", "n", "v", "a">>,
       <<"C", "a", "n", "v", "a">>>>,
     <<<<"g", "r", "a", "m", "m", "a", "r", "l", "y">>,
       <<"G", "r", "a", "m", "m", "a", "r", "l", "y">>>>,
     <<<<"n", "o", "r", "d", "v", "p", "n">>,
       <<"N", "o", "r", "d", "V", "P", "N">>>>,
     <<<<"e", "x", "p", "r", "e", "s", "s", "v", "p", "n">>,
       <<"E", "x", "p", "r", "e", "s", "s", "V", "P", "N">>>>,
     <<<<"1", "p", "a", "s", "s", "w", "o", "r", "d">>,
       <<"1", "P", "a", "s", "s", "w", "o", "r", "d">>>>,
     <<<<"l", "a", "s", "t", "p", "a", "s", "s">>,
       <<"L", "a", "s", "t", "P", "a", "s", "s">>>>,
     <<<<"b", "i", "t", "w", "a", "r", "d", "e", "n">>,
       <<"B", "i", "t", "w", "a", "r", "d", "e", "n">>>>,
     <<<<"a", "u", "d", "i", "b", "l", "e">>,
       <<"A", "u", "d", "i", "b", "l", "e">>>>,
     <<<<"k", "i", "n", "d", "l", "e">>,
       <<"A", "m", "a", "z", "o", "n", " ", "K", "i", "n", "d", "l", "e">>>>,
     <<<<"p", "r", "i", "m", "e">>,
       <<"A", "m", "a", "z", "o", "n", " ", "P", "r", "i", "m", "e">>>>,
     <<<<"p", "a", "r", "a", "m", "o", "u", "n", "t">>,
       <<"P", "a", "r", "a", "m", "o", "u", "n", "t", "+">>>>,
     <<<<"p", "e", "a", "c", "o", "c", "k">>,
       <<"P", "e", "a", "c", "o", "c", "k">>>>,
     <<<<"a", "t", "t">>,
       <<"A", "T", "&", "T">>>>,
     <<<<"v", "e", "r", "i", "z", "o", "n">>,
       <<"V", "e", "r", "i", "z", "o", "n">>>>,
     <<<<"t", "m", "o", "b", "i", "l", "e">>,
       <<"T", "-", "M", "o", "b", "i", "l", "e">>>>,
     <<<<"c", "o", "m", "c", "a", "s", "t">>,
       <<"C", "o", "m", "c", "a", "s", "t", "/", "X", "f", "i", "n", "i", "t", "y">>>>,
     <<<<"x", "f", "i", "n", "i", "t", "y">>,
       <<"C", "o", "m", "c", "a", "s", "t", "/", "X", "f", "i", "n", "i", "t", "y">>>>,
     <<<<"s", "p", "e", "c", "t", "r", "u", "m">>,
       <<"S", "p", "e", "c", "t", "r", "u", "m">>>>,
     <<<<"c", "o", "x">>,
       <<"C", "o", "x">>>> >>

RECURSIVE applyStripPatterns(_, _)
applyStripPatterns(s, k) ==
  IF k > Len(STRIP_PATTERNS) THEN s
  ELSE applyStripPatterns(replace(s, STRIP_PATTERNS[k]), k + 1)

\* s.replace(/\s+/g, ' ')
RECURSIVE collapseWhitespace(_)
collapseWhitespace(s) ==
  IF s = <<>> THEN <<>>
  ELSE IF Head(s) \in SpaceSet THEN <<" ">> \o collapseWhitespace(trimStart(Tail(s)))
       ELSE <<Head(s)>> \o collapseWhitespace(Tail(s))

\* index of the first entry of KNOWN_MERCHANTS whose key s includes, 0 if none
RECURSIVE knownMerchantIndex(_, _)
knownMerchantIndex(s, k) ==
  IF k > Len(KNOWN_MERCHANTS) THEN 0
  ELSE IF includes(s, KNOWN_MERCHANTS[k][1]) THEN k
       ELSE knownMerchantIndex(s, k + 1)

titleCase(s) ==
  LET l == toLowerCase(s)
  IN  [i \in 1..Len(l) |-> IF i = 1 \/ l[i - 1] = " " THEN toUpperChar(l[i]) ELSE l[i]]

normalizeMerchantName(rawName) ==
  LET upper      == toUpperCase(trim(rawName))
      stripped   == applyStripPatterns(upper, 1)
      normalized == trim(collapseWhitespace(stripped))
      lowerNormalized == stripNonAlnum(toLowerCase(normalized))
      k          == knownMerchantIndex(lowerNormalized, 1)
  IN  IF k # 0 THEN KNOWN_MERCHANTS[k][2] ELSE titleCase(normalized)

Min3(x, y, z) ==
  IF x <= y /\ x <= z THEN x ELSE IF y <= z THEN y ELSE z

\* matrix[i][j] of levenshteinDistance, row i over b, column j over a
RECURSIVE LevCell(_, _, _, _)
LevCell(a, b, i, j) ==
  IF i = 0 THEN j
  ELSE IF j = 0 THEN i
  ELSE IF b[i] = a[j] THEN LevCell(a, b, i - 1, j - 1)
  ELSE Min3(LevCell(a, b, i - 1, j - 1) + 1,
            LevCell(a, b, i, j - 1) + 1,
            LevCell(a, b, i - 1, j) + 1)

levenshteinDistance(a, b) == LevCell(a, b, Len(b), Len(a))

Max(x, y) == IF x >= y THEN x ELSE y

\* the similarity as the fraction <<numerator, denominator>>
calculateSimilarity(a, b) ==
  LET normA == stripNonAlnum(toLowerCase(a))
      normB == stripNonAlnum(toLowerCase(b))
  IN  IF normA = normB THEN <<1, 1>>
      ELSE IF Len(normA) = 0 \/ Len(normB) = 0 THEN <<0, 1>>
      ELSE LET distance  == levenshteinDistance(normA, normB)
               maxLength == Max(Len(normA), Len(normB))
           IN  <<maxLength - distance, maxLength>>

\* variant: calculateSimilarity(...) >= 0.8
IsSimilar_atLeast(a, b) ==
  LET sim == calculateSimilarity(a, b) IN 10 * sim[1] >= 8 * sim[2]

\* calculateSimilarity(...) > 0.8
IsSimilar(a, b) ==
  LET sim == calculateSimilarity(a, b) IN 10 * sim[1] > 8 * sim[2]

(***************************************************************************)
(* Bounds and input domains                                                *)
(***************************************************************************)
\* findOrCreateMerchant calls started in one behaviour
MaxCalls == 4

\* the requests that resolve merchants concurrently
Procs == {1, 2}

\* raw merchant texts: rawZ and rawZ2 normalize to the same name; the names
\* of rawX and rawY are each similar to that name but not to each other
rawZ  == <<"a","b","b","b","b","b">>
rawZ2 == <<"A","B","B","B","B","B"," ","#","1">>
rawX  == <<"a","b","b","b","b","a">>
rawY  == <<"c","b","b","b","b","b">>
RawNames == {rawZ, rawZ2, rawX, rawY}

\* descriptions of ingested transactions: two merchants that are not similar
rawN == <<"N","E","T","F","L","I","X",".","C","O","M">>
Descriptions == {rawZ, rawN}

\* texts for single calls: the names of rawV and rawW have similarity exactly
\* 0.8 (edit distance 1 over 5 characters)
rawV == <<"a","b","b","b","b">>
rawW == <<"a","b","b","b","c">>
LookupTexts == RawNames \cup {rawV, rawW}

\* normalizeMerchantName and the similarity test on the texts above, tabulated
NormalizedName ==
  [r \in RawNames \cup Descriptions \cup LookupTexts |-> normalizeMerchantName(r)]

MerchantNames == {NormalizedName[r] : r \in DOMAIN NormalizedName}

SimilarNames == [a \in MerchantNames, b \in MerchantNames |-> IsSimilar(a, b)]

\* the NULL of a merchant_id (row ids start at 1)
NULL == 0

(***************************************************************************)
(* State                                                                   *)
(***************************************************************************)
VARIABLES
  env,               \* deployment and workload: [rlsEnforced, faults, tzAhead,
                     \* descriptions, dates, amounts, maxTx]
  merchants,         \* table merchants: rows [id, name]
  merchant_aliases,  \* table merchant_aliases: rows [raw_name, merchant_id]
  nextMerchantId,    \* next value of uuid_generate_v4() for merchants
  call,              \* per request: frame of its findOrCreateMerchant call
  ncalls,            \* calls started so far
  hist,              \* per raw name: the merchant ids returned, and how often
  note               \* per request, about its call: raced, no alias found, merchants created

resolverVars == <<merchants, merchant_aliases, nextMerchantId, call, ncalls, hist, note>>

\* .single(): the row when the query selects exactly one, else no data
Single(rows) == IF Cardinality(rows) = 1 THEN rows ELSE {}

(***************************************************************************)
(* Table constraints                                                       *)
(***************************************************************************)
\* variant: the table without its unique constraint
MerchantNameTaken_none(ms, name) == FALSE

\* merchants: UNIQUE(user_id, name)
MerchantNameTaken(ms, name) == \E m \in ms : m.name = name

\* merchant_aliases: UNIQUE(user_id, raw_name)
AliasConflict(al, raw) == \E a \in al : a.raw_name = raw

\* .upsert({merchant_id, raw_name, user_id}, {onConflict: 'user_id,raw_name'}):
\* INSERT ... ON CONFLICT (user_id, raw_name) DO UPDATE.  merchant_aliases has
\* row level security with SELECT, INSERT and DELETE policies but no UPDATE
\* policy, so under row level security the update path is an error (which the
\* caller does not look at); with security bypassed the row is rebound.
UpsertAlias(al, raw, mid, rls) ==
  IF ~AliasConflict(al, raw) THEN al \cup {[raw_name |-> raw, merchant_id |-> mid]}
  ELSE IF rls THEN al
  ELSE {a \in al : a.raw_name # raw} \cup {[raw_name |-> raw, merchant_id |-> mid]}

(***************************************************************************)
(* findOrCreateMerchant, one store round trip per step.  A step maps the   *)
(* store st = [ms, al, nid] and the call frame fr = [pc, rawName,          *)
(* merchantId] to the set of possible outcomes.                            *)
(***************************************************************************)
Outcome(ms, al, nid, fr) == [ms |-> ms, al |-> al, nid |-> nid, fr |-> fr]

NewFrame(raw) == [pc |-> "alias_lookup", rawName |-> raw, merchantId |-> NULL]

IdleFrame == [pc |-> "idle", rawName |-> <<>>, merchantId |-> NULL]

Finished(fr) == fr.pc \in {"idle", "returned", "threw"}

\* variant: the stored alias is not consulted
AliasLookupStep_miss(st, fr) ==
  { Outcome(st.ms, st.al, st.nid, [fr EXCEPT !.pc = "name_lookup"]) }

AliasLookupStep(st, fr) ==
  LET existingAlias == Single({a \in st.al : a.raw_name = fr.rawName})
  IN  IF existingAlias # {}
      THEN { Outcome(st.ms, st.al, st.nid,
                     [fr EXCEPT !.pc = "returned", !.merchantId = a.merchant_id])
             : a \in existingAlias }
      ELSE { Outcome(st.ms, st.al, st.nid, [fr EXCEPT !.pc = "name_lookup"]) }

NameLookupStep(st, fr) ==
  LET normalizedName   == NormalizedName[fr.rawName]
      existingMerchant == Single({m \in st.ms : m.name = normalizedName})
  IN  IF existingMerchant # {}
      THEN { Outcome(st.ms, st.al, st.nid,
                     [fr EXCEPT !.pc = "update_raw_names", !.merchantId = m.id])
             : m \in existingMerchant }
      ELSE { Outcome(st.ms, st.al, st.nid, [fr EXCEPT !.pc = "scan"]) }

\* the update of merchants.raw_names (a column the model does not hold)
UpdateRawNamesStep(st, fr) ==
  { Outcome(st.ms, st.al, st.nid, [fr EXCEPT !.pc = "alias_upsert"]) }

\* select id, name of all merchants without ORDER BY: the first similar one in
\* an order the store does not fix
SimilarMerchants(ms, name) == {m \in ms : SimilarNames[name, m.name]}

ScanStep(st, fr) ==
  LET similar == SimilarMerchants(st.ms, NormalizedName[fr.rawName])
  IN  IF similar # {}
      THEN { Outcome(st.ms, st.al, st.nid,
                     [fr EXCEPT !.pc = "alias_upsert", !.merchantId = m.id])
             : m \in similar }
      ELSE { Outcome(st.ms, st.al, st.nid, [fr EXCEPT !.pc = "insert"]) }

InsertStep(st, fr, faults) ==
  LET normalizedName == NormalizedName[fr.rawName]
      failed  == { Outcome(st.ms, st.al, st.nid, [fr EXCEPT !.pc = "threw"]) }
      created == { Outcome(st.ms \cup {[id |-> st.nid, name |-> normalizedName]},
                           st.al, st.nid + 1,
                           [fr EXCEPT !.pc = "alias_upsert", !.merchantId = st.nid]) }
  IN  IF MerchantNameTaken(st.ms, normalizedName) THEN failed
      ELSE IF faults THEN created \cup failed
      ELSE created

AliasUpsertStep(st, fr, rls) ==
  { Outcome(st.ms, UpsertAlias(st.al, fr.rawName, fr.merchantId, rls), st.nid,
            [fr EXCEPT !.pc = "returned"]) }

ResolverStep(st, fr, e) ==
  CASE fr.pc = "alias_lookup"     -> AliasLookupStep(st, fr)
    [] fr.pc = "name_lookup"      -> NameLookupStep(st, fr)
    [] fr.pc = "update_raw_names" -> UpdateRawNamesStep(st, fr)
    [] fr.pc = "scan"             -> ScanStep(st, fr)
    [] fr.pc = "insert"           -> InsertStep(st, fr, e.faults)
    [] fr.pc = "alias_upsert"     -> AliasUpsertStep(st, fr, e.rlsEnforced)
    [] OTHER                      -> {}

\* a whole call with no other request in between: the outcomes at its end
RECURSIVE RunResolver(_, _, _)
RunResolver(st, fr, e) ==
  IF Finished(fr) THEN { Outcome(st.ms, st.al, st.nid, fr) }
  ELSE UNION { RunResolver([ms |-> o.ms, al |-> o.al, nid |-> o.nid], o.fr, e)
               : o \in ResolverStep(st, fr, e) }

(***************************************************************************)
(* Recurring-charge detection (pure part).  A transaction is a record      *)
(* [id, merchant_id, date, amount, pending]; a list of them is in the      *)
(* order the query or the caller supplies.  Fractions are pairs            *)
(* <<numerator, denominator>> with a positive denominator.                 *)
(***************************************************************************)
FREQUENCY_PATTERNS ==
  << [frequency |-> "weekly",    minDays |-> 5,   maxDays |-> 9,   weight |-> <<10, 10>>],
     [frequency |-> "biweekly",  minDays |-> 12,  maxDays |-> 16,  weight |-> <<10, 10>>],
     [frequency |-> "monthly",   minDays |-> 27,  maxDays |-> 35,  weight |-> <<12, 10>>],
     [frequency |-> "quarterly", minDays |-> 85,  maxDays |-> 100, weight |-> <<8, 10>>],
     [frequency |-> "yearly",    minDays |-> 355, maxDays |-> 375, weight |-> <<6, 10>>] >>

MIN_TRANSACTIONS == 2
MIN_CONFIDENCE == <<5, 10>>
AMOUNT_TOLERANCE == <<15, 100>>

RECURSIVE Sum(_)
Sum(s) == IF s = <<>> THEN 0 ELSE Head(s) + Sum(Tail(s))

Abs(x) == IF x < 0 THEN -x ELSE x

\* Array.prototype.sort with a comparator on dates (stable)
RECURSIVE InsertByDate(_, _)
InsertByDate(sorted, tx) ==
  IF sorted = <<>> THEN <<tx>>
  ELSE IF tx.date < Head(sorted).date THEN <<tx>> \o sorted
       ELSE <<Head(sorted)>> \o InsertByDate(Tail(sorted), tx)

RECURSIVE SortByDate(_)
SortByDate(txs) ==
  IF txs = <<>> THEN <<>>
  ELSE InsertByDate(SortByDate(SubSeq(txs, 1, Len(txs) - 1)), txs[Len(txs)])

DatesOf(txs) == [i \in 1..Len(txs) |-> txs[i].date]

AmountsOf(txs) == [i \in 1..Len(txs) |-> txs[i].amount]

NoFrequency == [frequency |-> "none", confidence |-> <<0, 1>>]

\* the (bestMatch, bestScore) loop over FREQUENCY_PATTERNS from pattern k on;
\* scores are numerators over the denominator 10 * Len(intervals)
RECURSIVE BestPattern(_, _, _, _)
BestPattern(intervals, k, bestMatch, bestScore) ==
  IF k > Len(FREQUENCY_PATTERNS) THEN <<bestMatch, bestScore>>
  ELSE LET pattern == FREQUENCY_PATTERNS[k]
           n       == Len(intervals)
           total   == Sum(intervals)
           matchingIntervals ==
             Cardinality({i \in 1..n : intervals[i] >= pattern.minDays
                                       /\ intervals[i] <= pattern.maxDays})
           score   == matchingIntervals * pattern.weight[1]
       IN  IF total >= pattern.minDays * n /\ total <= pattern.maxDays * n /\ score > bestScore
           THEN BestPattern(intervals, k + 1, k, score)
           ELSE BestPattern(intervals, k + 1, bestMatch, bestScore)

\* variant: a best score below MIN_CONFIDENCE is accepted
detectFrequency_noMinimum(dates) ==
  IF Len(dates) < MIN_TRANSACTIONS THEN NoFrequency
  ELSE LET sortedDates == DatesOf(SortByDate([i \in 1..Len(dates) |-> [date |-> dates[i]]]))
           intervals   == [i \in 1..(Len(sortedDates) - 1) |-> sortedDates[i + 1] - sortedDates[i]]
           den         == 10 * Len(intervals)
           best        == BestPattern(intervals, 1, 0, 0)
       IN  IF Len(intervals) = 0 THEN NoFrequency
           ELSE IF best[1] = 0 THEN NoFrequency
                ELSE [frequency  |-> FREQUENCY_PATTERNS[best[1]].frequency,
                      confidence |-> <<IF best[2] < den THEN best[2] ELSE den, den>>]

detectFrequency(dates) ==
  IF Len(dates) < MIN_TRANSACTIONS THEN NoFrequency
  ELSE LET sortedDates == DatesOf(SortByDate([i \in 1..Len(dates) |-> [date |-> dates[i]]]))
           intervals   == [i \in 1..(Len(sortedDates) - 1) |-> sortedDates[i + 1] - sortedDates[i]]
           den         == 10 * Len(intervals)
           best        == BestPattern(intervals, 1, 0, 0)
       IN  IF Len(intervals) = 0 THEN NoFrequency
           ELSE IF best[1] = 0 \/ best[2] * MIN_CONFIDENCE[2] < MIN_CONFIDENCE[1] * den
                THEN NoFrequency
                ELSE [frequency  |-> FREQUENCY_PATTERNS[best[1]].frequency,
                      confidence |-> <<IF best[2] < den THEN best[2] ELSE den, den>>]

\* Math.abs(amount - avgAmount) / avgAmount <= AMOUNT_TOLERANCE with
\* avgAmount = total / n: a negative average makes the quotient <= 0, a zero
\* average makes it NaN or Infinity
WithinTolerance(amount, total, n) ==
  IF total > 0 THEN Abs(amount * n - total) * AMOUNT_TOLERANCE[2] <= AMOUNT_TOLERANCE[1] * total
  ELSE IF total < 0 THEN TRUE
  ELSE FALSE

checkAmountConsistency(amounts) ==
  IF Len(amounts) < 2 THEN [consistent |-> FALSE, confidenceBoost |-> <<0, 1>>]
  ELSE LET n == Len(amounts)
           total == Sum(amounts)
           consistentCount ==
             Cardinality({i \in 1..n : WithinTolerance(amounts[i], total, n)})
       IN  [consistent      |-> 10 * consistentCount >= 7 * n,
            confidenceBoost |-> <<2 * consistentCount, 10 * n>>]

GroupIndex(groups, mid) ==
  IF \E i \in 1..Len(groups) : groups[i].merchantId = mid
  THEN CHOOSE i \in 1..Len(groups) : groups[i].merchantId = mid
  ELSE 0

\* variant: transactions without a merchant are grouped too
GroupAdd_keepNull(groups, tx) ==
  IF tx.pending THEN groups
  ELSE LET i == GroupIndex(groups, tx.merchant_id)
       IN  IF i # 0 THEN [groups EXCEPT ![i].transactions = Append(@, tx)]
           ELSE Append(groups, [merchantId |-> tx.merchant_id, transactions |-> <<tx>>])

\* one iteration of the loop of groupByMerchant
GroupAdd(groups, tx) ==
  IF tx.merchant_id = NULL \/ tx.pending THEN groups
  ELSE LET i == GroupIndex(groups, tx.merchant_id)
       IN  IF i # 0 THEN [groups EXCEPT ![i].transactions = Append(@, tx)]
           ELSE Append(groups, [merchantId |-> tx.merchant_id, transactions |-> <<tx>>])

\* the groups in the insertion order of the Map
RECURSIVE groupByMerchant(_)
groupByMerchant(txs) ==
  IF txs = <<>> THEN <<>>
  ELSE GroupAdd(groupByMerchant(SubSeq(txs, 1, Len(txs) - 1)), txs[Len(txs)])

\* Math.min(a + b, 1) on fractions
AddCapped(a, b) ==
  LET num == a[1] * b[2] + b[1] * a[2]
      den == a[2] * b[2]
  IN  <<IF num < den THEN num ELSE den, den>>

\* variant: first and current amount in the order of arrival
CandidateOf_unsorted(group) ==
  LET frequencyResult == detectFrequency(DatesOf(group.transactions))
      amountCheck     == checkAmountConsistency(AmountsOf(group.transactions))
      sortedTx        == group.transactions
  IN  IF Len(group.transactions) < MIN_TRANSACTIONS THEN <<>>
      ELSE IF frequencyResult.frequency = "none" THEN <<>>
      ELSE IF ~amountCheck.consistent THEN <<>>
      ELSE << [merchantId       |-> group.merchantId,
               frequency        |-> frequencyResult.frequency,
               confidence       |-> AddCapped(frequencyResult.confidence,
                                              amountCheck.confidenceBoost),
               firstAmount      |-> sortedTx[1].amount,
               currentAmount    |-> sortedTx[Len(sortedTx)].amount,
               firstDate        |-> sortedTx[1].date,
               lastDate         |-> sortedTx[Len(sortedTx)].date,
               transactionCount |-> Len(group.transactions)] >>

\* the candidate of one group, as a list of zero or one element
CandidateOf(group) ==
  LET frequencyResult == detectFrequency(DatesOf(group.transactions))
      amountCheck     == checkAmountConsistency(AmountsOf(group.transactions))
      sortedTx        == SortByDate(group.transactions)
  IN  IF Len(group.transactions) < MIN_TRANSACTIONS THEN <<>>
      ELSE IF frequencyResult.frequency = "none" THEN <<>>
      ELSE IF ~amountCheck.consistent THEN <<>>
      ELSE << [merchantId       |-> group.merchantId,
               frequency        |-> frequencyResult.frequency,
               confidence       |-> AddCapped(frequencyResult.confidence,
                                              amountCheck.confidenceBoost),
               firstAmount      |-> sortedTx[1].amount,
               currentAmount    |-> sortedTx[Len(sortedTx)].amount,
               firstDate        |-> sortedTx[1].date,
               lastDate         |-> sortedTx[Len(sortedTx)].date,
               transactionCount |-> Len(group.transactions)] >>

RECURSIVE CandidatesOf(_)
CandidatesOf(groups) ==
  IF groups = <<>> THEN <<>>
  ELSE CandidateOf(Head(groups)) \o CandidatesOf(Tail(groups))

detectRecurringCharges(txs) == CandidatesOf(groupByMerchant(txs))

(***************************************************************************)
(* Price drift (pure part)                                                 *)
(***************************************************************************)
\* the loop of detectPriceChanges from index i on
RECURSIVE ChangesFrom(_, _, _)
ChangesFrom(sortedTx, rc, i) ==
  IF i > Len(sortedTx) THEN <<>>
  ELSE LET prev   == sortedTx[i - 1]
           curr   == sortedTx[i]
           change == curr.amount - prev.amount
           \* percentChange as a fraction; 0 when prev.amount is not positive
           percentChange == IF prev.amount > 0 THEN <<change * 100, prev.amount>> ELSE <<0, 1>>
       IN  (IF Abs(percentChange[1]) > percentChange[2]
            THEN << [recurringChargeId |-> rc.id,
                     merchantId        |-> rc.merchant_id,
                     previousAmount    |-> prev.amount,
                     newAmount         |-> curr.amount,
                     changeAmount      |-> change,
                     changePercent     |-> percentChange,
                     detectedAt        |-> curr.date,
                     transactionId     |-> curr.id] >>
            ELSE <<>>)
           \o ChangesFrom(sortedTx, rc, i + 1)

detectPriceChanges(txs, rc) ==
  LET sortedTx == SortByDate(SelectSeq(txs, LAMBDA tx : tx.merchant_id = rc.merchant_id
                                                        /\ ~tx.pending))
  IN  IF Len(sortedTx) < 2 THEN <<>> ELSE ChangesFrom(sortedTx, rc, 2)

(***************************************************************************)
(* Text encodings used by the CSV import                                   *)
(***************************************************************************)
\* the printable ASCII characters, from code 32 on (code 96, the grave accent,
\* is spelled out: no text of the model holds it)
AsciiChars ==
  <<
     " ", "!", "\"", "#", "$", "%", "&", "'", "(", ")", "*", "+", ",", "-", ".", "/",
     "0", "1", "2", "3", "4", "5", "6", "7", "8", "9", ":", ";", "<", "=", ">", "?",
     "@", "A", "B", "C", "D", "E", "F", "G", "H", "I", "J", "K", "L", "M", "N", "O",
     "P", "Q", "R", "S", "T", "U", "V", "W", "X", "Y", "Z", "[", "\\", "]", "^", "_",
     "grave", "a", "b", "c", "d", "e", "f", "g", "h", "i", "j", "k", "l", "m", "n", "o",
     "p", "q", "r", "s", "t", "u", "v", "w", "x", "y", "z", "{", "|", "}", "~" >>

\* the UTF-8 byte of a character (the model's texts are ASCII)
CharCode(c) == 31 + (CHOOSE i \in 1..Len(AsciiChars) : AsciiChars[i] = c)

\* Buffer.from(str)
Utf8Bytes(s) == [i \in 1..Len(s) |-> CharCode(s[i])]

Base64Alphabet ==
  <<
     "A", "B", "C", "D", "E", "F", "G", "H", "I", "J", "K", "L", "M", "N", "O", "P",
     "Q", "R", "S", "T", "U", "V", "W", "X", "Y", "Z", "a", "b", "c", "d", "e", "f",
     "g", "h", "i", "j", "k", "l", "m", "n", "o", "p", "q", "r", "s", "t", "u", "v",
     "w", "x", "y", "z", "0", "1", "2", "3", "4", "5", "6", "7", "8", "9", "+", "/" >>

Base64Char(v) == Base64Alphabet[v + 1]

\* Buffer.toString('base64'): three bytes give four characters; a final group
\* of one or two bytes is padded with "="
RECURSIVE toBase64(_)
toBase64(bytes) ==
  IF bytes = <<>> THEN <<>>
  ELSE IF Len(bytes) = 1
       THEN << Base64Char(bytes[1] \div 4), Base64Char((bytes[1] % 4) * 16), "=", "=" >>
  ELSE IF Len(bytes) = 2
       THEN << Base64Char(bytes[1] \div 4),
               Base64Char((bytes[1] % 4) * 16 + bytes[2] \div 16),
               Base64Char((bytes[2] % 16) * 4), "=" >>
  ELSE << Base64Char(bytes[1] \div 4),
          Base64Char((bytes[1] % 4) * 16 + bytes[2] \div 16),
          Base64Char((bytes[2] % 16) * 4 + bytes[3] \div 64),
          Base64Char(bytes[3] % 64) >>
       \o toBase64(SubSeq(bytes, 4, Len(bytes)))

\* String.prototype.slice(0, n)
slice0(s, n) == SubSeq(s, 1, IF Len(s) < n THEN Len(s) ELSE n)

DigitChars == <<"0","1","2","3","4","5","6","7","8","9">>

Digit(d) == DigitChars[d + 1]

\* the decimal digits of a natural number
RECURSIVE NatString(_)
NatString(n) == IF n < 10 THEN <<Digit(n)>> ELSE NatString(n \div 10) \o <<Digit(n % 10)>>

TwoDigits(n) == <<Digit(n \div 10), Digit(n % 10)>>

\* `${amount}` of a JavaScript number holding an amount of cents / 100
NumberString(cents) ==
  LET whole == Abs(cents) \div 100
      frac  == Abs(cents) % 100
      sign  == IF cents < 0 THEN <<"-">> ELSE <<>>
  IN  sign \o NatString(whole) \o
      (IF frac = 0 THEN <<>>
       ELSE IF frac % 10 = 0 THEN <<".", Digit(frac \div 10)>>
       ELSE <<".">> \o TwoDigits(frac))

\* days are numbered from 2024-01-01 (day 0) within the year 2024
DaysInMonth == <<31, 29, 31, 30, 31, 30, 31, 31, 30, 31, 30, 31>>

RECURSIVE MonthAndDay(_, _)
MonthAndDay(m, d) ==
  IF d < DaysInMonth[m] THEN <<m, d + 1>> ELSE MonthAndDay(m + 1, d - DaysInMonth[m])

\* the 'YYYY-MM-DD' text of a day
DateString(d) ==
  LET md == MonthAndDay(1, d)
  IN  <<"2","0","2","4","-">> \o TwoDigits(md[1]) \o <<"-">> \o TwoDigits(md[2])

\* the plaid_transaction_id the CSV import gives row idx of an import
CsvTxId(tx, importName, idx) ==
  LET uniqueStr == DateString(tx.date) \o <<"|">> \o NumberString(tx.amount) \o <<"|">>
                   \o slice0(tx.description, 20) \o <<"|">> \o importName \o <<"|">>
                   \o NatString(idx)
      encoded   == SelectSeq(toBase64(Utf8Bytes(uniqueStr)),
                             LAMBDA c : c \notin {"/", "+", "="})
  IN  <<"c","s","v","-">> \o slice0(encoded, 50)

(***************************************************************************)
(* Ingestion and detection: bounds, inputs and state                       *)
(***************************************************************************)
\* transaction rows inserted in one behaviour of the detection runs
MaxTx == 3

\* the same where merchant resolution can fail
MaxIngestTx == 2

\* the dates (days from 2024-01-01) and amounts (cents) of ingested rows
Dates == {0, 7, 14}
Amounts == {1000, 1200}

\* dates and amounts where merchant resolution can fail
IngestDates == {0, 7}
IngestAmounts == {1000}

\* Plaid reports credits as amounts <= 0
Credits == {-500}
PlaidIds == { <<"p","1">> }

ImportNames == { <<"a",".","c","s","v">> }

\* CsvTxId on the rows above, tabulated
CsvTxIds ==
  [description \in Descriptions, date \in Dates \cup IngestDates,
   amount \in Amounts \cup IngestAmounts, importName \in ImportNames, idx \in 0..(MaxTx + MaxIngestTx) |->
     CsvTxId([description |-> description, date |-> date, amount |-> amount],
             importName, idx)]

VARIABLES
  transactions,       \* table transactions, in storage order: rows
                      \* [id, account_id, plaid_transaction_id, merchant_id, date,
                      \*  amount, pending]
  recurring_charges,  \* table recurring_charges
  price_changes,      \* table price_changes
  nextTxId,           \* next value of uuid_generate_v4() for transactions
  nextRcId,           \* the same for recurring_charges
  nextPcId,           \* the same for price_changes
  req,                \* the request being served and where its handler stands:
                      \* stage, what it fetched (charges, fetched), loop variables
                      \* (idx, lastDate, merchantId, todo, cur)
                      \* and what it did so far (rows up to 2, thrown, saved, updated)
  rcFresh             \* recurring-detection runs since the last write to
                      \* transactions or recurring_charges by anything else (up to 2)

pipelineVars == <<transactions, recurring_charges, price_changes,
                  nextTxId, nextRcId, nextPcId, req, rcFresh>>

\* a call of one of the pure functions: [fn, arg, out, done]
VARIABLE probe

NoProbe == [fn |-> "none", arg |-> <<>>, out |-> <<>>, done |-> TRUE]

VARIABLES
  accounts,           \* table accounts: rows [id, plaid_account_id]
  nextAccountId,      \* next value of uuid_generate_v4() for accounts
  excluded,           \* the merchants whose is_excluded is TRUE
  del                 \* the DELETE /api/accounts/[id] request being served:
                      \* stage, accountId, affected (affectedMerchantIds still to
                      \* clean up), cur (the merchant of this iteration)

accountVars == <<accounts, nextAccountId, excluded, del>>

vars == <<env, resolverVars, pipelineVars, probe, accountVars>>

\* accounts created in one behaviour
MaxAccounts == 3

\* accounts.plaid_account_id of the account of a CSV import and of the
\* linked Plaid account
CsvAccountIdentifier(importName) == <<"c", "s", "v", "-">> \o importName

PlaidAccountIdentifier == <<"a", "c", "c", "1">>

IdleDelete == [stage |-> "idle", accountId |-> NULL, affected |-> {}, cur |-> NULL]

\* the user has linked a Plaid account and imported each CSV name before
InitAccounts ==
  /\ accounts = {[id |-> 1, plaid_account_id |-> PlaidAccountIdentifier]}
                  \cup {[id |-> 2, plaid_account_id |-> CsvAccountIdentifier(name)]
                          : name \in ImportNames}
  /\ nextAccountId = 3
  /\ excluded = {}
  /\ del = IdleDelete

\* charge.firstDate.toISOString().split('T')[0] of a date made by parseISO:
\* local midnight, printed as a UTC date, which is the day before on a server
\* whose time zone is ahead of UTC
ToISODate(d, tzAhead) == IF tzAhead THEN d - 1 ELSE d

\* DECIMAL(3, 2): a fraction rounded to hundredths
Round2(f) == (200 * f[1] + f[2]) \div (2 * f[2])

\* .from('transactions').select('*').eq('pending', false).order('date')
FetchTransactions(txs) == SortByDate(SelectSeq(txs, LAMBDA tx : ~tx.pending))

TxIndex(txs, ptid) ==
  IF \E i \in 1..Len(txs) : txs[i].plaid_transaction_id = ptid
  THEN CHOOSE i \in 1..Len(txs) : txs[i].plaid_transaction_id = ptid
  ELSE 0

\* variant: a plain insert, without the conflict target
UpsertTransactionRow_insert(txs, nid, row) ==
  [rows |-> Append(txs, [row EXCEPT !.id = nid]), nid |-> nid + 1]

\* transactions: .upsert(row, {onConflict: 'user_id,plaid_transaction_id'}) with
\* UNIQUE(user_id, plaid_transaction_id); a new row takes the id nid
UpsertTransactionRow(txs, nid, row) ==
  LET i == TxIndex(txs, row.plaid_transaction_id)
  IN  IF i # 0
      THEN [rows |-> [txs EXCEPT ![i] = [row EXCEPT !.id = txs[i].id]], nid |-> nid]
      ELSE [rows |-> Append(txs, [row EXCEPT !.id = nid]), nid |-> nid + 1]

\* variant: plain insert
UpsertRecurringCharge_insert(rcs, nid, row) ==
  [rows |-> rcs \cup {[row EXCEPT !.id = nid]}, nid |-> nid + 1]

\* recurring_charges: .upsert(row, {onConflict: 'user_id,merchant_id,frequency'})
\* with UNIQUE(user_id, merchant_id, frequency)
UpsertRecurringCharge(rcs, nid, row) ==
  LET same == {rc \in rcs : rc.merchant_id = row.merchant_id /\ rc.frequency = row.frequency}
  IN  IF same # {}
      THEN [rows |-> (rcs \ same) \cup {[row EXCEPT !.id = rc.id] : rc \in same}, nid |-> nid]
      ELSE [rows |-> rcs \cup {[row EXCEPT !.id = nid]}, nid |-> nid + 1]

RecurringChargeRow(charge, tzAhead) ==
  [id               |-> NULL,
   merchant_id      |-> charge.merchantId,
   frequency        |-> charge.frequency,
   confidence_score |-> Round2(charge.confidence),
   first_seen_at    |-> ToISODate(charge.firstDate, tzAhead),
   last_seen_at     |-> ToISODate(charge.lastDate, tzAhead),
   first_amount     |-> charge.firstAmount,
   current_amount   |-> charge.currentAmount,
   transaction_count |-> charge.transactionCount,
   is_active        |-> TRUE]

\* the loop of saveRecurringCharges over the detected charges
RECURSIVE saveRecurringCharges(_, _, _, _)
saveRecurringCharges(rcs, nid, detected, tzAhead) ==
  IF detected = <<>> THEN [rows |-> rcs, nid |-> nid]
  ELSE LET r == UpsertRecurringCharge(rcs, nid, RecurringChargeRow(Head(detected), tzAhead))
       IN  saveRecurringCharges(r.rows, r.nid, Tail(detected), tzAhead)

\* the unique indexes of price_changes: its primary key only
PriceChangesUniqueKeys == { <<"id">> }

PriceChangeRecord(change, tzAhead) ==
  [id                  |-> NULL,
   recurring_charge_id |-> change.recurringChargeId,
   merchant_id         |-> change.merchantId,
   previous_amount     |-> change.previousAmount,
   new_amount          |-> change.newAmount,
   change_amount       |-> change.changeAmount,
   change_percent      |-> change.changePercent,
   detected_at         |-> ToISODate(change.detectedAt, tzAhead),
   transaction_id      |-> change.transactionId]

\* INSERT ... ON CONFLICT (recurring_charge_id, detected_at) DO NOTHING, row by row
RECURSIVE InsertIgnoringDuplicates(_, _, _)
InsertIgnoringDuplicates(pcs, nid, records) ==
  IF records = <<>> THEN [rows |-> pcs, nid |-> nid]
  ELSE LET rec == Head(records)
       IN  IF \E pc \in pcs : /\ pc.recurring_charge_id = rec.recurring_charge_id
                              /\ pc.detected_at = rec.detected_at
           THEN InsertIgnoringDuplicates(pcs, nid, Tail(records))
           ELSE InsertIgnoringDuplicates(pcs \cup {[rec EXCEPT !.id = nid]}, nid + 1,
                                         Tail(records))

\* savePriceChanges: the upsert names a conflict target; the statement is an
\* error unless a unique index covers exactly those columns, and on an error
\* nothing is stored and the function returns 0
savePriceChanges(pcs, nid, changes, tzAhead) ==
  LET records == [i \in 1..Len(changes) |-> PriceChangeRecord(changes[i], tzAhead)]
  IN  IF <<"recurring_charge_id", "detected_at">> \in PriceChangesUniqueKeys
      THEN InsertIgnoringDuplicates(pcs, nid, records) @@ [error |-> FALSE]
      ELSE [rows |-> pcs, nid |-> nid, error |-> TRUE]

IdleRequest ==
  [kind |-> "idle", stage |-> "idle", importName |-> <<>>, accountId |-> NULL,
   idx |-> 0, lastDate |-> 0,
   rows |-> 0, merchantId |-> NULL, thrown |-> FALSE, charges |-> {}, fetched |-> <<>>,
   todo |-> {}, cur |-> NULL, saved |-> {}, updated |-> {}]

InitPipeline ==
  /\ transactions = <<>>
  /\ recurring_charges = {}
  /\ price_changes = {}
  /\ nextTxId = 1
  /\ nextRcId = 1
  /\ nextPcId = 1
  /\ req = IdleRequest
  /\ rcFresh = 0
  /\ InitAccounts

(***************************************************************************)
(* Requests resolving merchants concurrently                               *)
(***************************************************************************)
Store == [ms |-> merchants, al |-> merchant_aliases, nid |-> nextMerchantId]

InFlight(p) == ~Finished(call[p])

NoteReturn(h, fr) ==
  IF fr.pc = "returned"
  THEN [h EXCEPT ![fr.rawName] = [ids |-> @.ids \cup {fr.merchantId}, n |-> @.n + 1]]
  ELSE h

\* request p takes the outcome o of its current step
Take(p, o) ==
  /\ merchants' = o.ms
  /\ merchant_aliases' = o.al
  /\ nextMerchantId' = o.nid
  /\ call' = [call EXCEPT ![p] = o.fr]
  /\ hist' = NoteReturn(hist, o.fr)
  /\ note' = [note EXCEPT ![p] =
                [@ EXCEPT !.noAlias = @ \/ o.fr.pc = "name_lookup",
                          !.created = @ + Cardinality(o.ms) - Cardinality(merchants)]]
  /\ UNCHANGED <<env, probe, accountVars, ncalls, pipelineVars>>

Begin(p, raw) ==
  /\ ~InFlight(p)
  /\ ncalls < MaxCalls
  /\ ncalls' = ncalls + 1
  /\ call' = [call EXCEPT ![p] = NewFrame(raw)]
  /\ LET rivals == {q \in Procs \ {p} : InFlight(q) /\ call[q].rawName = raw}
     IN  note' = [q \in Procs |->
                    IF q = p THEN [raced |-> rivals # {}, noAlias |-> FALSE, created |-> 0]
                    ELSE IF q \in rivals THEN [note[q] EXCEPT !.raced = TRUE]
                    ELSE note[q]]
  /\ UNCHANGED <<env, probe, accountVars, merchants, merchant_aliases, nextMerchantId, hist, pipelineVars>>

\* a request calls findOrCreateMerchant while others may be inside it
StartCall(p) == \E raw \in RawNames : Begin(p, raw)

\* a request calls findOrCreateMerchant when no other request is inside it
StartCallAlone(p) ==
  /\ \A q \in Procs : ~InFlight(q)
  /\ \E raw \in RawNames : Begin(p, raw)

AliasLookup(p) ==
  /\ call[p].pc = "alias_lookup"
  /\ \E o \in AliasLookupStep(Store, call[p]) : Take(p, o)

NameLookup(p) ==
  /\ call[p].pc = "name_lookup"
  /\ \E o \in NameLookupStep(Store, call[p]) : Take(p, o)

UpdateRawNames(p) ==
  /\ call[p].pc = "update_raw_names"
  /\ \E o \in UpdateRawNamesStep(Store, call[p]) : Take(p, o)

ScanMerchants(p) ==
  /\ call[p].pc = "scan"
  /\ \E o \in ScanStep(Store, call[p]) : Take(p, o)

InsertMerchant(p) ==
  /\ call[p].pc = "insert"
  /\ \E o \in InsertStep(Store, call[p], env.faults) : Take(p, o)

AliasUpsert(p) ==
  /\ call[p].pc = "alias_upsert"
  /\ \E o \in AliasUpsertStep(Store, call[p], env.rlsEnforced) : Take(p, o)

CallStep(p) ==
  \/ AliasLookup(p)
  \/ NameLookup(p)
  \/ UpdateRawNames(p)
  \/ ScanMerchants(p)
  \/ InsertMerchant(p)
  \/ AliasUpsert(p)

InitResolver ==
  /\ merchants = {}
  /\ merchant_aliases = {}
  /\ nextMerchantId = 1
  /\ call = [p \in Procs |-> IdleFrame]
  /\ ncalls = 0
  /\ hist = [r \in RawNames |-> [ids |-> {}, n |-> 0]]
  /\ note = [p \in Procs |-> [raced |-> FALSE, noAlias |-> FALSE, created |-> 0]]

InitResolve ==
  /\ env \in [rlsEnforced : BOOLEAN, faults : {FALSE}, tzAhead : {FALSE},
              descriptions : {{}}, dates : {{}}, amounts : {{}}, maxTx : {0}]
  /\ InitResolver
  /\ InitPipeline
  /\ probe = NoProbe

NextResolve == \E p \in Procs : StartCall(p) \/ CallStep(p)

NextResolveSeq == \E p \in Procs : StartCallAlone(p) \/ CallStep(p)

\* merchant resolution by concurrent requests
SpecResolve == InitResolve /\ [][NextResolve]_vars

\* merchant resolution, one call at a time
SpecResolveSeq == InitResolve /\ [][NextResolveSeq]_vars


\* a whole call of findOrCreateMerchant with no other request in between; the
\* probe keeps the argument, the tables as the call found them and its frame
\* at the end
CallFindOrCreateMerchant ==
  /\ ncalls < MaxCalls
  /\ \E raw \in LookupTexts :
       \E o \in RunResolver(Store, NewFrame(raw), env) :
         /\ merchants' = o.ms
         /\ merchant_aliases' = o.al
         /\ nextMerchantId' = o.nid
         /\ probe' = [fn |-> "findOrCreateMerchant",
                      arg |-> [rawName |-> raw, merchants |-> merchants,
                               merchant_aliases |-> merchant_aliases],
                      out |-> o.fr, done |-> TRUE]
  /\ ncalls' = ncalls + 1
  /\ UNCHANGED <<env, call, hist, note, pipelineVars, accountVars>>

\* findOrCreateMerchant called again and again on the tables it left
SpecLookup == InitResolve /\ [][CallFindOrCreateMerchant]_vars
(***************************************************************************)
(* Ingestion and detection requests, served one at a time                  *)
(***************************************************************************)
Min(a, b) == IF a < b THEN a ELSE b

\* the handler's try/catch around findOrCreateMerchant: null when it threw
ResolvedMerchant(o) == IF o.fr.pc = "returned" THEN o.fr.merchantId ELSE NULL

\* one ingested row: findOrCreateMerchant run to its end with outcome o, then
\* the upsert of the transaction, which is an error (nothing stored) when the
\* account row is gone (account_id REFERENCES accounts)
StoreRow(ptid, tx, o, request) ==
  LET merchantId == ResolvedMerchant(o)
      row == [id |-> NULL, account_id |-> request.accountId, plaid_transaction_id |-> ptid,
              merchant_id |-> merchantId,
              date |-> tx.date, amount |-> tx.amount, pending |-> tx.pending]
      r   == IF \E a \in accounts : a.id = request.accountId
             THEN UpsertTransactionRow(transactions, nextTxId, row)
             ELSE [rows |-> transactions, nid |-> nextTxId]
  IN  /\ TxIndex(transactions, ptid) # 0 \/ nextTxId <= env.maxTx
      /\ merchants' = o.ms
      /\ merchant_aliases' = o.al
      /\ nextMerchantId' = o.nid
      /\ transactions' = r.rows
      /\ nextTxId' = r.nid
      /\ req' = [request EXCEPT !.rows = Min(@ + 1, 2), !.merchantId = merchantId,
                                !.thrown = @ \/ o.fr.pc = "threw"]
      /\ rcFresh' = 0
      /\ UNCHANGED <<env, probe, accountVars, call, ncalls, hist, note, recurring_charges, price_changes,
                     nextRcId, nextPcId>>

\* POST /api/transactions/upload up to the loop over the parsed rows: the
\* account of the import name is looked up, and created when there is none
StartCsvImport ==
  /\ req.stage = "idle"
  /\ \E name \in ImportNames :
       LET existingAccount ==
             {a \in accounts : a.plaid_account_id = CsvAccountIdentifier(name)}
           csvAccountId ==
             IF existingAccount # {} THEN (CHOOSE a \in existingAccount : TRUE).id
             ELSE nextAccountId
       IN  /\ existingAccount # {} \/ nextAccountId <= MaxAccounts
           /\ accounts' = IF existingAccount # {} THEN accounts
                          ELSE accounts \cup {[id |-> nextAccountId,
                                               plaid_account_id |-> CsvAccountIdentifier(name)]}
           /\ nextAccountId' = IF existingAccount # {} THEN nextAccountId
                               ELSE nextAccountId + 1
           /\ req' = [IdleRequest EXCEPT !.kind = "csv", !.stage = "ingest",
                                         !.importName = name, !.accountId = csvAccountId]
  /\ UNCHANGED <<env, probe, excluded, del, resolverVars, transactions, recurring_charges,
                 price_changes, nextTxId, nextRcId, nextPcId, rcFresh>>

\* one iteration of the loop; parseCSV returns the rows sorted by date
IngestCsvRow ==
  /\ req.kind = "csv" /\ req.stage = "ingest"
  /\ \E description \in env.descriptions, date \in env.dates, amount \in env.amounts :
       LET tx == [description |-> description, date |-> date, amount |-> amount,
                  pending |-> FALSE]
       IN  /\ req.idx = 0 \/ date >= req.lastDate
           /\ req.idx <= env.maxTx
           /\ \E o \in RunResolver(Store, NewFrame(description), env) :
                StoreRow(CsvTxIds[description, date, amount, req.importName, req.idx], tx, o,
                         [req EXCEPT !.idx = @ + 1, !.lastDate = date])

\* POST /api/plaid/sync-transactions up to the first transactionsSync page
\* of the linked Plaid account
StartSync ==
  /\ req.stage = "idle"
  /\ \E account \in {a \in accounts : a.plaid_account_id = PlaidAccountIdentifier} :
       req' = [IdleRequest EXCEPT !.kind = "sync", !.stage = "ingest",
                                 !.accountId = account.id]
  /\ UNCHANGED <<env, probe, accountVars, resolverVars, transactions, recurring_charges, price_changes,
                 nextTxId, nextRcId, nextPcId, rcFresh>>

\* upsertTransaction for one added or modified transaction
SyncUpsert ==
  /\ req.kind = "sync" /\ req.stage = "ingest"
  /\ \E id \in PlaidIds, merchantName \in env.descriptions, date \in env.dates,
        amount \in env.amounts \cup Credits, pending \in BOOLEAN :
       LET tx == [date |-> date, amount |-> amount, pending |-> pending]
       IN  IF amount <= 0 THEN UNCHANGED vars
           ELSE \E o \in RunResolver(Store, NewFrame(merchantName), env) :
                  StoreRow(id, tx, o, req)

\* removeTransaction; price_changes.transaction_id is ON DELETE SET NULL
SyncRemove ==
  /\ req.kind = "sync" /\ req.stage = "ingest"
  /\ \E id \in PlaidIds :
       LET gone == {transactions[i].id : i \in {j \in 1..Len(transactions) :
                                                 transactions[j].plaid_transaction_id = id}}
       IN  /\ transactions' = SelectSeq(transactions, LAMBDA tx : tx.plaid_transaction_id # id)
           /\ price_changes' = {IF pc.transaction_id \in gone
                                THEN [pc EXCEPT !.transaction_id = NULL] ELSE pc
                                : pc \in price_changes}
  /\ rcFresh' = 0
  /\ UNCHANGED <<env, probe, accountVars, resolverVars, recurring_charges, nextTxId, nextRcId, nextPcId, req>>

\* the ingestion loop ends
EndIngest ==
  /\ req.stage = "ingest"
  /\ req' = [req EXCEPT !.stage = "recurring"]
  /\ UNCHANGED <<env, probe, accountVars, resolverVars, transactions, recurring_charges, price_changes,
                 nextTxId, nextRcId, nextPcId, rcFresh>>

\* POST /api/recurring/detect up to its call of runRecurringDetection
StartDetect ==
  /\ req.stage = "idle"
  /\ req' = [IdleRequest EXCEPT !.kind = "detect", !.stage = "recurring"]
  /\ UNCHANGED <<env, probe, accountVars, resolverVars, transactions, recurring_charges, price_changes,
                 nextTxId, nextRcId, nextPcId, rcFresh>>

runRecurringDetection ==
  /\ req.stage = "recurring"
  /\ LET detected == detectRecurringCharges(FetchTransactions(transactions))
         r == saveRecurringCharges(recurring_charges, nextRcId, detected, env.tzAhead)
     IN  /\ recurring_charges' = r.rows
         /\ nextRcId' = r.nid
  /\ req' = [req EXCEPT !.stage = "price_fetch"]
  /\ rcFresh' = Min(rcFresh + 1, 2)
  /\ UNCHANGED <<env, probe, accountVars, resolverVars, transactions, price_changes, nextTxId, nextPcId>>

\* runPriceChangeDetection: the two fetches
PriceFetch ==
  /\ req.stage = "price_fetch"
  /\ req' = [req EXCEPT !.stage = "price_loop",
                        !.charges = {[id |-> rc.id, merchant_id |-> rc.merchant_id]
                                      : rc \in {x \in recurring_charges : x.is_active}},
                        !.fetched = FetchTransactions(transactions),
                        !.todo = {rc.id : rc \in {x \in recurring_charges : x.is_active}}]
  /\ UNCHANGED <<env, probe, accountVars, resolverVars, transactions, recurring_charges, price_changes,
                 nextTxId, nextRcId, nextPcId, rcFresh>>

\* detectPriceChanges on the fetched transactions for a fetched charge
ChangesOf(id) ==
  LET rc == CHOOSE x \in req.charges : x.id = id
  IN  detectPriceChanges(req.fetched, rc)

\* an iteration for a charge without price changes
PriceSkip ==
  /\ req.stage = "price_loop"
  /\ \E id \in req.todo :
       /\ ChangesOf(id) = <<>>
       /\ req' = [req EXCEPT !.todo = @ \ {id}]
  /\ UNCHANGED <<env, probe, accountVars, resolverVars, transactions, recurring_charges, price_changes,
                 nextTxId, nextRcId, nextPcId, rcFresh>>

\* an iteration for a charge with price changes, first write: savePriceChanges
PriceSave ==
  /\ req.stage = "price_loop"
  /\ \E id \in req.todo :
       LET changes == ChangesOf(id)
           r == savePriceChanges(price_changes, nextPcId, changes, env.tzAhead)
       IN  /\ changes # <<>>
           /\ price_changes' = r.rows
           /\ nextPcId' = r.nid
           /\ req' = [req EXCEPT !.stage = "price_update", !.cur = id,
                                 !.saved = IF r.error THEN @ ELSE @ \cup {id}]
  /\ UNCHANGED <<env, probe, accountVars, resolverVars, transactions, recurring_charges,
                 nextTxId, nextRcId, rcFresh>>

\* the same iteration, second write: the update of the recurring charge
PriceUpdate ==
  /\ req.stage = "price_update"
  /\ LET changes == ChangesOf(req.cur)
         latest  == changes[Len(changes)]
     IN  recurring_charges' =
           {IF rc.id = req.cur
            THEN [rc EXCEPT !.current_amount = latest.newAmount,
                            !.last_seen_at = ToISODate(latest.detectedAt, env.tzAhead)]
            ELSE rc : rc \in recurring_charges}
  /\ req' = [req EXCEPT !.stage = "price_loop", !.cur = NULL, !.todo = @ \ {req.cur},
                        !.updated = @ \cup {req.cur}]
  /\ rcFresh' = 0
  /\ UNCHANGED <<env, probe, accountVars, resolverVars, transactions, price_changes,
                 nextTxId, nextRcId, nextPcId>>

\* the loop of runPriceChangeDetection ends
PriceDone ==
  /\ req.stage = "price_loop" /\ req.todo = {}
  /\ req' = [req EXCEPT !.stage = "respond"]
  /\ UNCHANGED <<env, probe, accountVars, resolverVars, transactions, recurring_charges, price_changes,
                 nextTxId, nextRcId, nextPcId, rcFresh>>

\* the response is sent
Respond ==
  /\ req.stage = "respond"
  /\ req' = IdleRequest
  /\ UNCHANGED <<env, probe, accountVars, resolverVars, transactions, recurring_charges, price_changes,
                 nextTxId, nextRcId, nextPcId, rcFresh>>

\* the request ends where it stands (the function is killed or times out)
Interrupt ==
  /\ req.stage \notin {"idle", "respond"}
  /\ req' = IdleRequest
  /\ UNCHANGED <<env, probe, accountVars, resolverVars, transactions, recurring_charges, price_changes,
                 nextTxId, nextRcId, nextPcId, rcFresh>>

Deployment(faults, descriptions, dates, amounts, maxTx) ==
  [rlsEnforced : {TRUE}, faults : {faults}, tzAhead : {FALSE},
   descriptions : {descriptions}, dates : {dates}, amounts : {amounts}, maxTx : {maxTx}]

InitIngest ==
  /\ env \in Deployment(TRUE, Descriptions, IngestDates, IngestAmounts, MaxIngestTx)
  /\ InitResolver
  /\ InitPipeline
  /\ probe = NoProbe

\* every row has the same amount here, so no charge has a price change
NextIngest ==
  \/ StartCsvImport
  \/ IngestCsvRow
  \/ StartSync
  \/ SyncUpsert
  \/ SyncRemove
  \/ EndIngest
  \/ runRecurringDetection
  \/ PriceFetch
  \/ PriceSkip
  \/ PriceDone
  \/ Respond

\* imports and syncs whose merchant resolution can fail, one request at a time
SpecIngest == InitIngest /\ [][NextIngest]_vars

InitDetect ==
  /\ env \in Deployment(FALSE, {rawZ}, Dates, Amounts, MaxTx)
  /\ InitResolver
  /\ InitPipeline
  /\ probe = NoProbe

NextDetect ==
  \/ StartCsvImport
  \/ IngestCsvRow
  \/ EndIngest
  \/ StartDetect
  \/ runRecurringDetection
  \/ PriceFetch
  \/ PriceSkip
  \/ PriceSave
  \/ PriceUpdate
  \/ PriceDone
  \/ Respond
  \/ Interrupt

\* imports and detection runs, one request at a time
SpecDetect == InitDetect /\ [][NextDetect]_vars


(***************************************************************************)
(* Account deletion and merchant exclusion.  The DELETE handler is served  *)
(* next to the ingestion and detection request: each of its awaited        *)
(* statements is a step, and steps of the other request can come between.  *)
(***************************************************************************)
\* transaction rows inserted in one behaviour with account deletions
MaxAccountTx == 2

TransactionsOf(mid) ==
  {i \in 1..Len(transactions) : transactions[i].merchant_id = mid}

\* DELETE ... FROM transactions WHERE account_id = accountId:
\* price_changes.transaction_id is ON DELETE SET NULL
DeleteTransactions(accountId) ==
  LET ids == {transactions[i].id : i \in {j \in 1..Len(transactions) :
                                              transactions[j].account_id = accountId}}
  IN  /\ transactions' = SelectSeq(transactions, LAMBDA tx : tx.account_id # accountId)
      /\ price_changes' = {IF pc.transaction_id \in ids
                           THEN [pc EXCEPT !.transaction_id = NULL] ELSE pc
                           : pc \in price_changes}

\* DELETE /api/accounts/[id]: the account is found and the merchants of its
\* transactions are read
DeleteAccountStart ==
  /\ del.stage = "idle"
  /\ \E account \in accounts :
       del' = [stage |-> "delete_transactions", accountId |-> account.id,
               affected |-> {transactions[i].merchant_id :
                               i \in {j \in 1..Len(transactions) :
                                        transactions[j].account_id = account.id}} \ {NULL},
               cur |-> NULL]
  /\ UNCHANGED <<env, probe, resolverVars, pipelineVars, accounts, nextAccountId, excluded>>

\* the transactions of the account are deleted
DeleteAccountTransactions ==
  /\ del.stage = "delete_transactions"
  /\ DeleteTransactions(del.accountId)
  /\ del' = [del EXCEPT !.stage = "delete_account"]
  /\ rcFresh' = 0
  /\ UNCHANGED <<env, probe, resolverVars, recurring_charges, nextTxId, nextRcId, nextPcId,
                 req, accounts, nextAccountId, excluded>>

\* the account row is deleted; transactions.account_id is ON DELETE CASCADE
DeleteAccountRow ==
  /\ del.stage = "delete_account"
  /\ accounts' = {a \in accounts : a.id # del.accountId}
  /\ DeleteTransactions(del.accountId)
  /\ del' = [del EXCEPT !.stage = "cleanup"]
  /\ rcFresh' = 0
  /\ UNCHANGED <<env, probe, resolverVars, recurring_charges, nextTxId, nextRcId, nextPcId,
                 req, nextAccountId, excluded>>

\* the clean-up loop, one affected merchant: the count of its transactions
CleanupCount ==
  /\ del.stage = "cleanup"
  /\ \E merchantId \in del.affected :
       del' = [del EXCEPT !.cur = merchantId,
                          !.stage = IF TransactionsOf(merchantId) = {}
                                    THEN "orphan" ELSE "deactivate"]
  /\ UNCHANGED <<env, probe, resolverVars, pipelineVars, accounts, nextAccountId, excluded>>

\* remainingTx === 0: the price changes, recurring charges and aliases of
\* the merchant and the merchant row are deleted.  The four deletes are one
\* step: the last one, of the merchant row, cascades to the three tables and
\* sets transactions.merchant_id to NULL.
CleanupOrphan ==
  /\ del.stage = "orphan"
  /\ price_changes' = {pc \in price_changes : pc.merchant_id # del.cur}
  /\ recurring_charges' = {rc \in recurring_charges : rc.merchant_id # del.cur}
  /\ merchant_aliases' = {a \in merchant_aliases : a.merchant_id # del.cur}
  /\ merchants' = {m \in merchants : m.id # del.cur}
  /\ transactions' = [i \in 1..Len(transactions) |->
                        IF transactions[i].merchant_id = del.cur
                        THEN [transactions[i] EXCEPT !.merchant_id = NULL]
                        ELSE transactions[i]]
  /\ excluded' = excluded \ {del.cur}
  /\ del' = [del EXCEPT !.stage = "cleanup", !.affected = @ \ {del.cur}, !.cur = NULL]
  /\ rcFresh' = 0
  /\ UNCHANGED <<env, probe, nextMerchantId, call, ncalls, hist, note, nextTxId, nextRcId,
                 nextPcId, req, accounts, nextAccountId>>

\* the merchant still has transactions: its recurring charges are deactivated
CleanupDeactivate ==
  /\ del.stage = "deactivate"
  /\ recurring_charges' = {IF rc.merchant_id = del.cur THEN [rc EXCEPT !.is_active = FALSE]
                           ELSE rc : rc \in recurring_charges}
  /\ del' = [del EXCEPT !.stage = "cleanup", !.affected = @ \ {del.cur}, !.cur = NULL]
  /\ rcFresh' = 0
  /\ UNCHANGED <<env, probe, resolverVars, transactions, price_changes, nextTxId, nextRcId,
                 nextPcId, req, accounts, nextAccountId, excluded>>

\* the loop is over and the response is sent
DeleteAccountRespond ==
  /\ del.stage = "cleanup" /\ del.affected = {}
  /\ del' = IdleDelete
  /\ UNCHANGED <<env, probe, resolverVars, pipelineVars, accounts, nextAccountId, excluded>>

\* POST /api/merchants/[id]/exclude: is_excluded is set and, when excluding,
\* the recurring charges of the merchant are deactivated
ExcludeMerchant ==
  /\ \E m \in merchants, isExcluded \in BOOLEAN :
       /\ excluded' = IF isExcluded THEN excluded \cup {m.id} ELSE excluded \ {m.id}
       /\ recurring_charges' =
            IF isExcluded
            THEN {IF rc.merchant_id = m.id THEN [rc EXCEPT !.is_active = FALSE] ELSE rc
                  : rc \in recurring_charges}
            ELSE recurring_charges
  /\ rcFresh' = 0
  /\ UNCHANGED <<env, probe, resolverVars, transactions, price_changes, nextTxId, nextRcId,
                 nextPcId, req, accounts, nextAccountId, del>>

InitAccount ==
  /\ env \in Deployment(FALSE, {rawZ}, IngestDates, IngestAmounts, MaxAccountTx)
  /\ InitResolver
  /\ InitPipeline
  /\ probe = NoProbe

\* every row has the same amount here, so no charge has a price change
NextAccount ==
  \/ StartCsvImport
  \/ IngestCsvRow
  \/ StartSync
  \/ SyncUpsert
  \/ SyncRemove
  \/ EndIngest
  \/ runRecurringDetection
  \/ PriceFetch
  \/ PriceSkip
  \/ PriceDone
  \/ Respond
  \/ DeleteAccountStart
  \/ DeleteAccountTransactions
  \/ DeleteAccountRow
  \/ CleanupCount
  \/ CleanupOrphan
  \/ CleanupDeactivate
  \/ DeleteAccountRespond
  \/ ExcludeMerchant

\* imports, syncs and detection, with account deletions and exclusions
\* served at the same time
SpecAccount == InitAccount /\ [][NextAccount]_vars

(***************************************************************************)
(* POST /api/plaid/sync-transactions page by page.  The user has linked    *)
(* one Plaid item with two accounts, which share the item's access token;  *)
(* /transactions/sync returns the updates of the whole item since a        *)
(* cursor.  A cursor is the number of pages already handed out (NULL for   *)
(* none).                                                                  *)
(***************************************************************************)
\* pages of updates the item has at Plaid
MaxPages == 2

\* transaction rows inserted in one behaviour of the paged sync
MaxSyncTx == 5

SecondPlaidAccountIdentifier == <<"a", "c", "c", "2">>

ItemAccessToken == <<"a", "c", "c", "e", "s", "s", "-", "1">>

PlaidTransaction(id, account, name, amount, pending) ==
  [transaction_id |-> id, account_id |-> account, name |-> name, amount |-> amount,
   date |-> 0, pending |-> pending]

\* a pending charge of the first account, the same charge posted with another
\* amount, the same turned into a credit, and a charge of the second account
PendingCharge == PlaidTransaction(<<"p","1">>, PlaidAccountIdentifier, rawZ, 1000, TRUE)
PostedCharge  == PlaidTransaction(<<"p","1">>, PlaidAccountIdentifier, rawZ, 1200, FALSE)
Refund        == PlaidTransaction(<<"p","1">>, PlaidAccountIdentifier, rawZ, -500, FALSE)
OtherCharge   == PlaidTransaction(<<"p","2">>, SecondPlaidAccountIdentifier, rawN, 1200, FALSE)

\* the Plaid account every transaction id belongs to
PlaidAccountOf(id) ==
  IF id = OtherCharge.transaction_id THEN SecondPlaidAccountIdentifier
  ELSE PlaidAccountIdentifier

Page(added, modified, removed) ==
  [added |-> added, modified |-> modified, removed |-> removed]

PageChoices ==
  { Page(<<PendingCharge>>, <<>>, <<>>),
    Page(<<PendingCharge, OtherCharge>>, <<>>, <<>>),
    Page(<<>>, <<PostedCharge>>, <<>>),
    Page(<<>>, <<Refund>>, <<>>),
    Page(<<OtherCharge>>, <<>>, << [transaction_id |-> PendingCharge.transaction_id] >>),
    Page(<<>>, <<>>, << [transaction_id |-> OtherCharge.transaction_id] >>) }

Feeds == UNION {[1..k -> PageChoices] : k \in 1..MaxPages}

\* plaidClient.transactionsSync({access_token, cursor, count}) on the feed
transactionsSync(feed, cursor) ==
  IF cursor < Len(feed)
  THEN feed[cursor + 1] @@ [has_more |-> cursor + 1 < Len(feed), next_cursor |-> cursor + 1]
  ELSE Page(<<>>, <<>>, <<>>) @@ [has_more |-> FALSE, next_cursor |-> cursor]

\* the calls syncAccountTransactions makes for a page, in order
PageCalls(data) ==
  [i \in 1..Len(data.added) |-> [fn |-> "upsertTransaction", tx |-> data.added[i]]]
    \o [i \in 1..Len(data.modified) |-> [fn |-> "upsertTransaction", tx |-> data.modified[i]]]
    \o [i \in 1..Len(data.removed) |-> [fn |-> "removeTransaction", tx |-> data.removed[i]]]

\* the handler reads the active accounts and enters syncAccountTransactions
\* for one of them (the select has no ORDER BY: the rows come in any order)
StartPagedSync ==
  /\ req.stage = "idle"
  /\ accounts # {}
  /\ \E account \in accounts :
       req' = [IdleRequest EXCEPT !.kind = "sync", !.stage = "fetch_page",
                                  !.accountId = account.id]
                @@ [left |-> accounts \ {account}, nextCursor |-> account.sync_cursor,
                    hasMore |-> TRUE, calls |-> <<>>]
  /\ UNCHANGED <<env, probe, accountVars, resolverVars, transactions, recurring_charges,
                 price_changes, nextTxId, nextRcId, nextPcId, rcFresh>>

\* one transactionsSync call of the while loop
FetchPage ==
  /\ req.stage = "fetch_page"
  /\ LET data == transactionsSync(env.feed, req.nextCursor)
     IN  req' = [req EXCEPT !.stage = "apply_page", !.calls = PageCalls(data),
                            !.hasMore = data.has_more, !.nextCursor = data.next_cursor]
  /\ UNCHANGED <<env, probe, accountVars, resolverVars, transactions, recurring_charges,
                 price_changes, nextTxId, nextRcId, nextPcId, rcFresh>>

\* upsertTransaction for the next transaction of the page
PageUpsert ==
  /\ req.stage = "apply_page" /\ req.calls # <<>>
  /\ Head(req.calls).fn = "upsertTransaction"
  /\ LET tx   == Head(req.calls).tx
         rest == [req EXCEPT !.calls = Tail(@)]
     IN  IF tx.amount <= 0
         THEN /\ req' = rest
              /\ UNCHANGED <<env, probe, accountVars, resolverVars, transactions,
                             recurring_charges, price_changes, nextTxId, nextRcId,
                             nextPcId, rcFresh>>
         ELSE \E o \in RunResolver(Store, NewFrame(tx.name), env) :
                StoreRow(tx.transaction_id,
                         [date |-> tx.date, amount |-> tx.amount, pending |-> tx.pending],
                         o, rest)

\* removeTransaction for the next removed transaction of the page
PageRemove ==
  /\ req.stage = "apply_page" /\ req.calls # <<>>
  /\ Head(req.calls).fn = "removeTransaction"
  /\ LET id == Head(req.calls).tx.transaction_id
     IN  transactions' = SelectSeq(transactions, LAMBDA tx : tx.plaid_transaction_id # id)
  /\ req' = [req EXCEPT !.calls = Tail(@)]
  /\ rcFresh' = 0
  /\ UNCHANGED <<env, probe, accountVars, resolverVars, recurring_charges, price_changes,
                 nextTxId, nextRcId, nextPcId>>

\* the page is done: the loop goes on while has_more, else the function returns
PageDone ==
  /\ req.stage = "apply_page" /\ req.calls = <<>>
  /\ req' = [req EXCEPT !.stage = IF req.hasMore THEN "fetch_page" ELSE "store_cursor"]
  /\ UNCHANGED <<env, probe, accountVars, resolverVars, transactions, recurring_charges,
                 price_changes, nextTxId, nextRcId, nextPcId, rcFresh>>

\* the account's cursor is stored when the result has one, and the loop over
\* the accounts goes on; after the last account detection runs
StoreCursor ==
  /\ req.stage = "store_cursor"
  /\ accounts' = IF req.nextCursor # NULL
                 THEN {IF a.id = req.accountId THEN [a EXCEPT !.sync_cursor = req.nextCursor]
                       ELSE a : a \in accounts}
                 ELSE accounts
  /\ IF req.left = {}
     THEN req' = [req EXCEPT !.stage = "recurring"]
     ELSE \E account \in req.left :
            req' = [req EXCEPT !.stage = "fetch_page", !.accountId = account.id,
                               !.nextCursor = account.sync_cursor,
                               !.hasMore = TRUE, !.left = @ \ {account}]
  /\ UNCHANGED <<env, probe, nextAccountId, excluded, del, resolverVars, transactions,
                 recurring_charges, price_changes, nextTxId, nextRcId, nextPcId, rcFresh>>

InitSync ==
  /\ env \in {d @@ [feed |-> f]
                : d \in Deployment(FALSE, Descriptions, {0}, {1000, 1200}, MaxSyncTx),
                  f \in Feeds}
  /\ InitResolver
  /\ transactions = <<>>
  /\ recurring_charges = {}
  /\ price_changes = {}
  /\ nextTxId = 1
  /\ nextRcId = 1
  /\ nextPcId = 1
  /\ req = IdleRequest
  /\ rcFresh = 0
  /\ accounts = {[id |-> 1, plaid_account_id |-> PlaidAccountIdentifier,
                  plaid_access_token |-> ItemAccessToken, sync_cursor |-> NULL],
                 [id |-> 2, plaid_account_id |-> SecondPlaidAccountIdentifier,
                  plaid_access_token |-> ItemAccessToken, sync_cursor |-> NULL]}
  /\ nextAccountId = 3
  /\ excluded = {}
  /\ del = IdleDelete
  /\ probe = NoProbe

\* the item has at most two transactions, so no charge is detected and the
\* loop of runPriceChangeDetection over the charges has no iteration
NextSync ==
  \/ StartPagedSync
  \/ FetchPage
  \/ PageUpsert
  \/ PageRemove
  \/ PageDone
  \/ StoreCursor
  \/ runRecurringDetection
  \/ PriceFetch
  \/ PriceDone
  \/ Respond
  \/ Interrupt

\* syncs of the two accounts of one item, each of which can end where it stands
SpecSync == InitSync /\ [][NextSync]_vars

(***************************************************************************)
(* A sync that nothing interrupts, computed call by call.  A state is the  *)
(* merchant tables and the transactions table; a set of states is kept     *)
(* because findOrCreateMerchant can have several outcomes.                 *)
(***************************************************************************)
EmptyTables ==
  [ms |-> {}, al |-> {}, nid |-> 1, rows |-> <<>>, txnid |-> 1]

\* upsertTransaction / removeTransaction of account accountId on tables s
ApplyCall(s, accountId, c, deployment) ==
  IF c.fn = "removeTransaction"
  THEN {[s EXCEPT !.rows = SelectSeq(@, LAMBDA tx :
                      tx.plaid_transaction_id # c.tx.transaction_id)]}
  ELSE IF c.tx.amount <= 0 THEN {s}
  ELSE { LET row == [id |-> NULL, account_id |-> accountId,
                     plaid_transaction_id |-> c.tx.transaction_id,
                     merchant_id |-> ResolvedMerchant(o),
                     date |-> c.tx.date, amount |-> c.tx.amount, pending |-> c.tx.pending]
             r   == UpsertTransactionRow(s.rows, s.txnid, row)
         IN  [ms |-> o.ms, al |-> o.al, nid |-> o.nid, rows |-> r.rows, txnid |-> r.nid]
         : o \in RunResolver([ms |-> s.ms, al |-> s.al, nid |-> s.nid],
                             NewFrame(c.tx.name), deployment) }

RECURSIVE ApplyCalls(_, _, _, _)
ApplyCalls(S, accountId, calls, deployment) ==
  IF calls = <<>> THEN S
  ELSE ApplyCalls(UNION {ApplyCall(s, accountId, Head(calls), deployment) : s \in S},
                  accountId, Tail(calls), deployment)

\* the while loop of syncAccountTransactions from a cursor to the last page
RECURSIVE ApplyPages(_, _, _, _)
ApplyPages(S, accountId, cursor, deployment) ==
  LET data  == transactionsSync(deployment.feed, cursor)
      after == ApplyCalls(S, accountId, PageCalls(data), deployment)
  IN  IF data.has_more THEN ApplyPages(after, accountId, data.next_cursor, deployment)
      ELSE after

\* the first sync of the two accounts, first then second, run to its end
UninterruptedSync(first, second, deployment) ==
  ApplyPages(ApplyPages({EmptyTables}, first, NULL, deployment), second, NULL, deployment)

\* the stored transactions without their generated ids
WithoutIds(rows) == {[r EXCEPT !.id = NULL] : r \in {rows[i] : i \in 1..Len(rows)}}
(***************************************************************************)
(* Calls of the pure functions on inputs from bounded sets                 *)
(***************************************************************************)
\* the lists of up to n elements of S
SeqsUpTo(S, n) == UNION {[1..k -> S] : k \in 0..n}

\* no store and no request is involved in these calls
PureEnv ==
  [rlsEnforced |-> TRUE, faults |-> FALSE, tzAhead |-> FALSE,
   descriptions |-> {}, dates |-> {}, amounts |-> {}, maxTx |-> 0]

InitPure(fn, args) ==
  /\ env = PureEnv
  /\ InitResolver
  /\ InitPipeline
  /\ probe \in {[fn |-> fn, arg |-> a, out |-> <<>>, done |-> FALSE] : a \in args}

Returns(fn, result) ==
  /\ probe.fn = fn /\ ~probe.done
  /\ probe' = [probe EXCEPT !.out = result, !.done = TRUE]
  /\ UNCHANGED <<env, resolverVars, pipelineVars, accountVars>>

Returned(fn) == probe.fn = fn /\ probe.done

\* transactions in a list handed to the detection functions
MaxList == 3

\* settled transactions of two merchants, pending ones of the first, and
\* settled ones without a merchant
TxShapes ==
  [merchant_id : {NULL, 1, 2}, date : Dates, amount : Amounts, pending : {FALSE}]
    \cup [merchant_id : {1}, date : Dates, amount : Amounts, pending : {TRUE}]

Numbered(list) ==
  [i \in 1..Len(list) |->
     [id |-> i, plaid_transaction_id |-> <<>>, merchant_id |-> list[i].merchant_id,
      date |-> list[i].date, amount |-> list[i].amount, pending |-> list[i].pending]]

\* four monthly charges of one merchant: 2024-01-01, 02-01, 03-01, 04-01
MonthlyExample ==
  Numbered(<< [merchant_id |-> 1, date |-> 0,  amount |-> 1599, pending |-> FALSE],
              [merchant_id |-> 1, date |-> 31, amount |-> 1599, pending |-> FALSE],
              [merchant_id |-> 1, date |-> 60, amount |-> 1799, pending |-> FALSE],
              [merchant_id |-> 1, date |-> 91, amount |-> 1799, pending |-> FALSE] >>)

TxLists == {Numbered(l) : l \in SeqsUpTo(TxShapes, MaxList)} \cup {MonthlyExample}

CallDetectRecurringCharges ==
  Returns("detectRecurringCharges", detectRecurringCharges(probe.arg))

\* detectRecurringCharges on every list of transactions
SpecRecurring ==
  InitPure("detectRecurringCharges", TxLists) /\ [][CallDetectRecurringCharges]_vars

\* signed amounts: a credit, zero, and charges less and more than 1% apart
SignedAmounts == {-1000, 0, 1000, 1005, 1200}

\* settled transactions of the charge's merchant, and a pending one and one of
\* another merchant
PriceShapes ==
  [merchant_id : {1}, date : Dates, amount : SignedAmounts, pending : {FALSE}]
    \cup [merchant_id : {1}, date : {7}, amount : {1200}, pending : {TRUE}]
    \cup [merchant_id : {2}, date : {7}, amount : {1200}, pending : {FALSE}]

PriceLists == {Numbered(l) : l \in SeqsUpTo(PriceShapes, MaxList)} \cup {MonthlyExample}

ProbedCharge == [id |-> 1, merchant_id |-> 1]

CallDetectPriceChanges ==
  Returns("detectPriceChanges",
          detectPriceChanges(probe.arg.transactions, probe.arg.recurringCharge))

\* detectPriceChanges on every list of transactions
SpecPriceChanges ==
  /\ InitPure("detectPriceChanges",
              [transactions : PriceLists, recurringCharge : {ProbedCharge}])
  /\ [][CallDetectPriceChanges]_vars


\* ---------------------------------------------------------------------
\* Price drift metrics (calculateDriftMetrics).
\* Amounts are integer cents, dates are day numbers counted from
\* 2024-01-01.  percentChange is an exact fraction <<num, den>>.
\* annualizedIncrease is a floating-point power in the code; here it is
\* an enclosure [lo, hi] of the real value in hundredths of a percent,
\* computed with fixed-point products rounded down and up, or NaN.
\* ---------------------------------------------------------------------

\* First day number of month m of 2024.
RECURSIVE MonthStart(_)
MonthStart(m) == IF m = 1 THEN 0 ELSE MonthStart(m - 1) + DaysInMonth[m - 1]

\* date-fns differenceInMonths(dateLeft, dateRight): full months from
\* dateRight to dateLeft, truncated toward zero.  Days of month are kept
\* at 27 or below, so the library's end-of-month adjustments do not apply.
differenceInMonths(dateLeft, dateRight) ==
  LET l == MonthAndDay(1, dateLeft)
      r == MonthAndDay(1, dateRight)
  IN  IF dateLeft >= dateRight
      THEN (l[1] - r[1]) - (IF l[2] < r[2] THEN 1 ELSE 0)
      ELSE -((r[1] - l[1]) - (IF r[2] < l[2] THEN 1 ELSE 0))

\* Fixed-point numbers: x stands for x / Scale.
Scale == 10000

MulFloor(x, y) == (x \div Scale) * y + ((x % Scale) * y) \div Scale

MulCeil(x, y) == (x \div Scale) * y + ((x % Scale) * y + Scale - 1) \div Scale

RECURSIVE PowFloor(_, _)
PowFloor(x, n) == IF n = 0 THEN Scale ELSE MulFloor(PowFloor(x, n - 1), x)

RECURSIVE PowCeil(_, _)
PowCeil(x, n) == IF n = 0 THEN Scale ELSE MulCeil(PowCeil(x, n - 1), x)

Exactly(x) == [kind |-> "number", lo |-> x, hi |-> x]

NaN == [kind |-> "NaN", lo |-> 0, hi |-> 0]

\* Math.pow(num / den, 12 / months) for den > 0 and months > 0, as an
\* enclosure in units of 1 / Scale.  A negative base with a fractional
\* exponent is NaN; a fractional exponent of a non-negative base lies
\* between the powers with the neighbouring integer exponents.
MathPow(num, den, months) ==
  LET lo == (Abs(num) * Scale) \div den
      hi == (Abs(num) * Scale + den - 1) \div den
      n  == 12 \div months
  IN  IF 12 % months = 0
      THEN IF num >= 0 \/ n % 2 = 0
           THEN [kind |-> "number", lo |-> PowFloor(lo, n), hi |-> PowCeil(hi, n)]
           ELSE [kind |-> "number", lo |-> -PowCeil(hi, n), hi |-> -PowFloor(lo, n)]
      ELSE IF num < 0 THEN NaN
      ELSE IF num >= den
           THEN [kind |-> "number", lo |-> PowFloor(lo, n), hi |-> PowCeil(hi, n + 1)]
           ELSE [kind |-> "number", lo |-> PowFloor(lo, n + 1), hi |-> PowCeil(hi, n)]

\* (p - 1) * 100 percent, in hundredths of a percent.
GrowthPercent(p) ==
  IF p.kind = "NaN" THEN NaN
  ELSE [kind |-> "number", lo |-> p.lo - Scale, hi |-> p.hi - Scale]

calculateDriftMetrics_unguarded(firstAmount, currentAmount, firstDate, lastDate) ==
  LET monthsTracked == differenceInMonths(lastDate, firstDate)
  IN  [totalChange        |-> currentAmount - firstAmount,
       percentChange      |-> <<(currentAmount - firstAmount) * 100, firstAmount>>,
       annualizedIncrease |->
         IF firstAmount > 0 /\ monthsTracked > 0
         THEN GrowthPercent(MathPow(currentAmount, firstAmount, monthsTracked))
         ELSE Exactly(0),
       monthsTracked      |-> monthsTracked]

calculateDriftMetrics_simpleGrowth(firstAmount, currentAmount, firstDate, lastDate) ==
  LET monthsTracked == differenceInMonths(lastDate, firstDate)
  IN  [totalChange        |-> currentAmount - firstAmount,
       percentChange      |->
         IF firstAmount > 0
         THEN <<(currentAmount - firstAmount) * 100, firstAmount>>
         ELSE <<0, 1>>,
       annualizedIncrease |->
         IF firstAmount > 0 /\ monthsTracked > 0
         THEN GrowthPercent(MathPow(currentAmount, firstAmount, 12))
         ELSE Exactly(0),
       monthsTracked      |-> monthsTracked]

calculateDriftMetrics(firstAmount, currentAmount, firstDate, lastDate) ==
  LET monthsTracked == differenceInMonths(lastDate, firstDate)
  IN  [totalChange        |-> currentAmount - firstAmount,
       percentChange      |->
         IF firstAmount > 0
         THEN <<(currentAmount - firstAmount) * 100, firstAmount>>
         ELSE <<0, 1>>,
       annualizedIncrease |->
         IF firstAmount > 0 /\ monthsTracked > 0
         THEN GrowthPercent(MathPow(currentAmount, firstAmount, monthsTracked))
         ELSE Exactly(0),
       monthsTracked      |-> monthsTracked]

\* Inputs: a negative, a zero and a positive first amount; current amounts
\* below, at and above it; dates from 2024-01-15 to 2024-07-15.
FirstAmounts == {-1000, 0, 1599}

CurrentAmounts == {-1799, 0, 1500, 1599, 1799}

DriftDates == {14, 40, 45, 105, 171, 196}

DriftExample ==
  [firstAmount |-> 1599, currentAmount |-> 1799, firstDate |-> 14, lastDate |-> 105]

CallCalculateDriftMetrics ==
  Returns("calculateDriftMetrics",
          calculateDriftMetrics(probe.arg.firstAmount, probe.arg.currentAmount,
                                probe.arg.firstDate, probe.arg.lastDate))

SpecDrift ==
  /\ InitPure("calculateDriftMetrics",
              [firstAmount : FirstAmounts, currentAmount : CurrentAmounts,
               firstDate : DriftDates, lastDate : DriftDates])
  /\ [][CallCalculateDriftMetrics]_vars

\* ---------------------------------------------------------------------
\* normalizeMerchantName called on its own, on descriptions made of a
\* payment-processor prefix, a merchant text and a trailing store number
\* or suffix.
\* ---------------------------------------------------------------------
ProcessorPrefixes ==
  { <<>>,
    <<"S", "Q", " ", "*">>,
    <<"T", "S", "T", "*", " ">>,
    <<"S", "P", " ">> }

MerchantTexts ==
  { <<"C", "O", "F", "F", "E", "E", " ", "S", "H", "O", "P">>,
    <<"N", "E", "T", "F", "L", "I", "X", ".", "C", "O", "M">>,
    <<"S", "P", "O", "T", "I", "F", "Y", " ", "U", "S", "A">>,
    <<"N", "E", "T", "F", "L", "I", "X">>,
    <<"B", "l", "u", "e", " ", "B", "o", "t", "t", "l", "e">>,
    <<"H", "U", "L", "U">>,
    <<"A", "C", "M", "E", " ", "C", "O", "R", "P">> }

StoreSuffixes ==
  { <<>>,
    <<" ", "#", "1", "2", "3">>,
    <<" ", "#", "7">>,
    <<" ", "P", "U", "R", "C", "H", "A", "S", "E">> }

RawText(a) == a.prefix \o a.text \o a.suffix

SquareExample ==
  [prefix |-> <<"S", "Q", " ", "*">>, text |-> <<"C", "O", "F", "F", "E", "E", " ", "S", "H", "O", "P">>, suffix |-> <<" ", "#", "1", "2", "3">>]

NetflixExample == [prefix |-> <<>>, text |-> <<"N", "E", "T", "F", "L", "I", "X", ".", "C", "O", "M">>, suffix |-> <<>>]

SpotifyExample == [prefix |-> <<>>, text |-> <<"S", "P", "O", "T", "I", "F", "Y", " ", "U", "S", "A">>, suffix |-> <<>>]

CallNormalizeMerchantName ==
  Returns("normalizeMerchantName", normalizeMerchantName(RawText(probe.arg)))

SpecNormalize ==
  /\ InitPure("normalizeMerchantName",
              [prefix : ProcessorPrefixes, text : MerchantTexts, suffix : StoreSuffixes])
  /\ [][CallNormalizeMerchantName]_vars

\* ---------------------------------------------------------------------
\* CSV parser (parseCSV).  The input is the file after splitCSVLine: the
\* fields of the header line and the fields of each data line.  A parsed
\* amount is an integer number of cents.
\* ---------------------------------------------------------------------

removeChars(s, cls) == SelectSeq(s, LAMBDA c : c \notin cls)

QuoteSet == {"\"", "'"}

\* regex.test(s) for a pattern anchored at both ends
test(s, pat) == MatchAlt(s, 1, pat, 1) # 0

\* /^\d{4}-\d{2}-\d{2}$/
IsoDatePattern ==
  Pattern(<< <<Digits(4, 4), One("-"), Digits(2, 2), One("-"), Digits(2, 2)>> >>,
          TRUE, TRUE, FALSE)

\* /^(\d{1,2})\/(\d{1,2})\/(\d{4})$/ and /^(\d{1,2})\/(\d{1,2})\/(\d{2})$/
SlashDatePattern(yearDigits) ==
  Pattern(<< <<Digits(1, 2), One("/"), Digits(1, 2), One("/"),
               Digits(yearDigits, yearDigits)>> >>, TRUE, TRUE, FALSE)

\* the capture groups of a matched date: the parts between the separators
RECURSIVE splitOn(_, _)
splitOn(s, sep) ==
  IF \A i \in 1..Len(s) : s[i] # sep THEN <<s>>
  ELSE LET k == CHOOSE i \in 1..Len(s) : s[i] = sep /\ \A j \in 1..(i - 1) : s[j] # sep
       IN  <<SubSeq(s, 1, k - 1)>> \o splitOn(SubSeq(s, k + 1, Len(s)), sep)

\* s.padStart(2, '0')
padStart2(s) == IF Len(s) < 2 THEN <<"0">> \o s ELSE s

DigitValue(c) == CHOOSE d \in 0..9 : Digit(d) = c

\* parseInt of a text of digits
RECURSIVE parseInt(_)
parseInt(s) ==
  IF s = <<>> THEN 0 ELSE parseInt(SubSeq(s, 1, Len(s) - 1)) * 10 + DigitValue(s[Len(s)])

Some(v) == [ok |-> TRUE, value |-> v]

None == [ok |-> FALSE, value |-> <<>>]

\* new Date(cleaned) in parseDate's fallback.  The texts of the inputs that
\* reach it hold no digit and no month name: an Invalid Date.
DateConstructorFallback(cleaned) == None

parseDate(dateStr) ==
  LET cleaned == removeChars(trim(dateStr), QuoteSet)
      parts   == splitOn(cleaned, "/")
  IN  IF test(cleaned, IsoDatePattern) THEN Some(cleaned)
      ELSE IF test(cleaned, SlashDatePattern(4))
      THEN Some(parts[3] \o <<"-">> \o padStart2(parts[1]) \o <<"-">> \o padStart2(parts[2]))
      ELSE IF test(cleaned, SlashDatePattern(2))
      THEN LET year == (IF parseInt(parts[3]) > 50 THEN <<"1", "9">> ELSE <<"2", "0">>)
                         \o parts[3]
           IN  Some(year \o <<"-">> \o padStart2(parts[1]) \o <<"-">> \o padStart2(parts[2]))
      ELSE DateConstructorFallback(cleaned)

\* new Date(date).getTime() of a YYYY-MM-DD text, up to an order-preserving
\* rescaling (366 per year); NaN when the month or the day is out of range.
TimeValue(date) ==
  LET y == parseInt(SubSeq(date, 1, 4))
      m == parseInt(SubSeq(date, 6, 7))
      d == parseInt(SubSeq(date, 9, 10))
  IN  IF m \in 1..12 /\ d \in 1..DaysInMonth[m]
      THEN [nan |-> FALSE, t |-> (y - 2024) * 366 + MonthStart(m) + d - 1]
      ELSE [nan |-> TRUE, t |-> 0]

\* parseFloat of a text without leading white space: an optional sign,
\* digits and an optional fraction, whatever follows being ignored; NaN
\* without a digit.  The value is kept to the cent.
parseFloat(s) ==
  LET signed == s # <<>> /\ s[1] \in {"+", "-"}
      from   == IF signed THEN 2 ELSE 1
      n      == RunLen(s, from, DigitSet, -1)
      dot    == from + n <= Len(s) /\ s[from + n] = "."
      f      == IF dot THEN RunLen(s, from + n + 1, DigitSet, -1) ELSE 0
      whole  == parseInt(SubSeq(s, from, from + n - 1))
      frac   == SubSeq(s, from + n + 1, from + n + (IF f > 2 THEN 2 ELSE f))
      cents  == whole * 100 + (IF Len(frac) = 1 THEN 10 ELSE 1) * parseInt(frac)
  IN  IF n = 0 /\ f = 0 THEN None
      ELSE Some(IF signed /\ s[1] = "-" THEN -cents ELSE cents)

parseAmount_noParentheses(amountStr) ==
  LET cleaned0 == removeChars(removeChars(trim(amountStr), QuoteSet \cup {"$"}), SpaceSet)
      hasNegativeSign == cleaned0 # <<>> /\ cleaned0[1] = "-"
      cleaned2 == IF hasNegativeSign THEN Tail(cleaned0) ELSE cleaned0
      amount == parseFloat(removeChars(cleaned2, {","}))
  IN  IF ~amount.ok THEN None
      ELSE Some(IF hasNegativeSign THEN -amount.value ELSE amount.value)

parseAmount(amountStr) ==
  LET cleaned0 == removeChars(removeChars(trim(amountStr), QuoteSet \cup {"$"}), SpaceSet)
      isNegative == cleaned0 # <<>> /\ cleaned0[1] = "(" /\ cleaned0[Len(cleaned0)] = ")"
      cleaned1 == IF isNegative THEN SubSeq(cleaned0, 2, Len(cleaned0) - 1) ELSE cleaned0
      hasNegativeSign == cleaned1 # <<>> /\ cleaned1[1] = "-"
      cleaned2 == IF hasNegativeSign THEN Tail(cleaned1) ELSE cleaned1
      amount == parseFloat(removeChars(cleaned2, {","}))
  IN  IF ~amount.ok THEN None
      ELSE Some(IF isNegative \/ hasNegativeSign THEN -amount.value ELSE amount.value)

\* an index that was not found (-1, undefined)
NoIndex == -1

normalizeHeader(h) ==
  trim(collapseWhitespace(removeChars(toLowerCase(h), QuoteSet \cup {"."})))

RECURSIVE DetectLoop(_, _, _)
DetectLoop(lowerHeaders, i, m) ==
  IF i >= Len(lowerHeaders) THEN m
  ELSE LET h == lowerHeaders[i + 1]
           isDate == includes(h, <<"d", "a", "t", "e">>) \/ h = <<"p", "o", "s", "t", "e", "d">> \/ includes(h, <<"t", "r", "a", "n", "s">>)
           isDescription ==
             \/ includes(h, <<"d", "e", "s", "c", "r", "i", "p", "t", "i", "o", "n">>) \/ includes(h, <<"d", "e", "s", "c", "r", "i", "p">>)
             \/ includes(h, <<"m", "e", "r", "c", "h", "a", "n", "t">>) \/ includes(h, <<"p", "a", "y", "e", "e">>)
             \/ h = <<"n", "a", "m", "e">> \/ h = <<"m", "e", "m", "o">>
             \/ includes(h, <<"n", "a", "r", "r", "a", "t", "i", "v", "e">>) \/ includes(h, <<"d", "e", "t", "a", "i", "l", "s">>)
           isAmount == h = <<"a", "m", "o", "u", "n", "t">> \/ includes(h, <<"a", "m", "o", "u", "n", "t">>) \/ h = <<"v", "a", "l", "u", "e">> \/ h = <<"s", "u", "m">>
           isDebit  == h = <<"d", "e", "b", "i", "t">> \/ h = <<"w", "i", "t", "h", "d", "r", "a", "w", "a", "l">> \/ includes(h, <<"d", "e", "b", "i", "t">>)
           isCredit == h = <<"c", "r", "e", "d", "i", "t">> \/ h = <<"d", "e", "p", "o", "s", "i", "t">> \/ includes(h, <<"c", "r", "e", "d", "i", "t">>)
       IN  DetectLoop(lowerHeaders, i + 1,
             [dateIndex        |-> IF m.dateIndex = NoIndex /\ isDate THEN i ELSE m.dateIndex,
              descriptionIndex |-> IF m.descriptionIndex = NoIndex /\ isDescription
                                   THEN i ELSE m.descriptionIndex,
              amountIndex      |-> IF m.amountIndex = NoIndex /\ isAmount THEN i ELSE m.amountIndex,
              debitIndex       |-> IF isDebit THEN i ELSE m.debitIndex,
              creditIndex      |-> IF isCredit THEN i ELSE m.creditIndex])

\* detectColumns(headers): the column mapping, with ok FALSE for null
detectColumns(headers) ==
  LET lowerHeaders == [i \in 1..Len(headers) |-> normalizeHeader(headers[i])]
      found == DetectLoop(lowerHeaders, 0,
                 [dateIndex |-> NoIndex, descriptionIndex |-> NoIndex, amountIndex |-> NoIndex,
                  debitIndex |-> NoIndex, creditIndex |-> NoIndex])
      positional == found.dateIndex = NoIndex /\ Len(headers) >= 3
      m1 == IF positional
            THEN [found EXCEPT !.dateIndex = 0, !.descriptionIndex = 1, !.amountIndex = 2]
            ELSE found
      m2 == IF m1.amountIndex = NoIndex /\ (m1.debitIndex = NoIndex \/ m1.creditIndex = NoIndex)
            THEN [m1 EXCEPT !.amountIndex = Len(headers) - 1]
            ELSE m1
  IN  IF m1.dateIndex = NoIndex \/ m1.descriptionIndex = NoIndex THEN None ELSE Some(m2)

\* fields[index] || fallback
FieldOr(fields, index, fallback) ==
  IF index + 1 \in DOMAIN fields /\ fields[index + 1] # <<>> THEN fields[index + 1]
  ELSE fallback

\* The amount of one row: debit, minus credit or 0 with separate columns,
\* the parsed amount cell otherwise (ok FALSE for null).
RowAmount(mapping, fields) ==
  IF mapping.debitIndex # NoIndex /\ mapping.creditIndex # NoIndex
  THEN LET debit  == parseAmount(FieldOr(fields, mapping.debitIndex, <<"0">>))
           credit == parseAmount(FieldOr(fields, mapping.creditIndex, <<"0">>))
       IN  IF debit.ok /\ debit.value > 0 THEN Some(debit.value)
           ELSE IF credit.ok /\ credit.value > 0 THEN Some(-credit.value)
           ELSE Some(0)
  ELSE parseAmount(FieldOr(fields, mapping.amountIndex, <<>>))

\* One pass of the row loop over line i (0-based, the header is line 0).
ParseRow(mapping, fields, i, acc) ==
  LET dateStr == FieldOr(fields, mapping.dateIndex, <<>>)
      date == parseDate(dateStr)
      description ==
        trim(removeChars(FieldOr(fields, mapping.descriptionIndex, <<>>), QuoteSet))
      amount == RowAmount(mapping, fields)
  IN  IF ~date.ok
      THEN [acc EXCEPT !.errors = Append(@, [row |-> i + 1, message |-> "Invalid date"]),
                       !.skipped = @ + 1]
      ELSE IF description = <<>> THEN [acc EXCEPT !.skipped = @ + 1]
      ELSE IF ~amount.ok
      THEN [acc EXCEPT !.errors = Append(@, [row |-> i + 1, message |-> "Invalid amount"]),
                       !.skipped = @ + 1]
      ELSE IF amount.value = 0 THEN [acc EXCEPT !.skipped = @ + 1]
      ELSE [acc EXCEPT !.transactions =
              Append(@, [date |-> date.value, description |-> description,
                         amount |-> Abs(amount.value), rawLine |-> i])]

RECURSIVE ParseRows(_, _, _, _)
ParseRows(mapping, rows, i, acc) ==
  IF i > Len(rows) THEN acc
  ELSE ParseRows(mapping, rows, i + 1, ParseRow(mapping, rows[i], i, acc))

\* transactions.sort((a, b) => time(a.date) - time(b.date)): the stable
\* sort by time; when a time is NaN the comparator is not consistent and
\* the order is implementation-defined, any permutation.
RECURSIVE InsertByTime(_, _)
InsertByTime(sorted, tx) ==
  IF sorted = <<>> THEN <<tx>>
  ELSE IF TimeValue(sorted[Len(sorted)].date).t <= TimeValue(tx.date).t
       THEN Append(sorted, tx)
       ELSE Append(InsertByTime(SubSeq(sorted, 1, Len(sorted) - 1), tx), sorted[Len(sorted)])

RECURSIVE SortByTime(_)
SortByTime(txs) ==
  IF txs = <<>> THEN <<>>
  ELSE InsertByTime(SortByTime(SubSeq(txs, 1, Len(txs) - 1)), txs[Len(txs)])

Reorderings(txs) ==
  { [i \in 1..Len(txs) |-> txs[p[i]]] :
      p \in { q \in [1..Len(txs) -> 1..Len(txs)] :
                \A i, j \in 1..Len(txs) : q[i] = q[j] => i = j } }

sortTransactions(txs) ==
  IF \E i \in 1..Len(txs) : TimeValue(txs[i].date).nan /\ Len(txs) > 1
  THEN Reorderings(txs)
  ELSE {SortByTime(txs)}

\* parseCSV on a header line and data lines: the set of possible results.
parseCSV(headers, rows) ==
  LET mapping == detectColumns(headers)
      parsed  == ParseRows(mapping.value, rows, 1,
                           [transactions |-> <<>>, errors |-> <<>>, skipped |-> 0])
  IN  IF ~mapping.ok
      THEN { [transactions |-> <<>>,
              errors |-> << [row |-> 0, message |-> "Could not detect required columns"] >>,
              skipped |-> 0] }
      ELSE { [parsed EXCEPT !.transactions = sorted] :
               sorted \in sortTransactions(parsed.transactions) }

MaxRows == 2

DateCells ==
  { <<"2", "0", "2", "4", "-", "0", "1", "-", "0", "8">>,
    <<"0", "1", "/", "0", "1", "/", "2", "0", "2", "4">>,
    <<"1", "/", "1", "5", "/", "2", "4">>,
    <<"1", "3", "/", "4", "5", "/", "2", "0", "2", "4">>,
    <<"b", "a", "d">> }

AmountCells ==
  { <<"1", "2", ".", "3", "4">>,
    <<"(", "$", "1", "2", ".", "3", "4", ")">>,
    <<"-", "1", "2", ".", "3", "4">>,
    <<"0">>,
    <<>>,
    <<"a", "b", "c">> }

DebitCells ==
  { <<>>,
    <<"1", "2", ".", "3", "4">>,
    <<"a", "b", "c">> }

CreditCells ==
  { <<>>,
    <<"5", ".", "0", "0">> }

AmountHeaders == << <<"D", "a", "t", "e">>, <<"D", "e", "s", "c", "r", "i", "p", "t", "i", "o", "n">>, <<"A", "m", "o", "u", "n", "t">> >>

DebitCreditHeaders == << <<"D", "a", "t", "e">>, <<"D", "e", "s", "c", "r", "i", "p", "t", "i", "o", "n">>, <<"D", "e", "b", "i", "t">>, <<"C", "r", "e", "d", "i", "t">> >>

\* rows of a file with one amount column: dates in the supported formats,
\* an impossible date, a text that is no date; amounts in the three sign
\* notations, zero, an empty and an unparsable cell; an empty description
AmountRows ==
  { << d, <<"N", "e", "t", "f", "l", "i", "x">>, <<"1", "2", ".", "3", "4">> >> : d \in DateCells }
    \cup { << <<"2", "0", "2", "4", "-", "0", "1", "-", "0", "8">>, <<"N", "e", "t", "f", "l", "i", "x">>, a >> : a \in AmountCells }
    \cup { << <<"2", "0", "2", "4", "-", "0", "1", "-", "0", "8">>, <<>>, <<"1", "2", ".", "3", "4">> >> }

DebitCreditRows ==
  { << d, <<"N", "e", "t", "f", "l", "i", "x">>, debit, credit >> :
      d \in { <<"2", "0", "2", "4", "-", "0", "1", "-", "0", "8">>, <<"0", "1", "/", "0", "1", "/", "2", "0", "2", "4">> }, debit \in DebitCells, credit \in CreditCells }

CsvInputs ==
  [headers : {AmountHeaders}, rows : SeqsUpTo(AmountRows, MaxRows)]
    \cup [headers : {DebitCreditHeaders}, rows : SeqsUpTo(DebitCreditRows, MaxRows)]

CallParseCSV ==
  \E result \in parseCSV(probe.arg.headers, probe.arg.rows) : Returns("parseCSV", result)

SpecCsv == InitPure("parseCSV", CsvInputs) /\ [][CallParseCSV]_vars

\* intervals in days at and around the ends of every range of
\* FREQUENCY_PATTERNS, and 45 days, which lies in none
IntervalChoices ==
  {4, 5, 9, 10, 11, 12, 16, 17, 26, 27, 35, 36, 45, 84, 85, 100, 101, 354, 355, 375, 376}

\* amounts of either sign: 1000 and 1100 are within 15% of their mean, 1000
\* and 1400 are not, three of 1000, 1000, 1000, 1400 are
CandidateAmounts == {-1000, -100, 0, 1000, 1100, 1400}

\* settled transactions of merchant 1 with the given amounts, the first on
\* 2024-01-01 and the next ones the given numbers of days apart
RECURSIVE Spaced(_, _)
Spaced(intervals, amounts) ==
  IF intervals = <<>>
  THEN << [merchant_id |-> 1, date |-> 0, amount |-> amounts[1], pending |-> FALSE] >>
  ELSE LET before == Spaced(SubSeq(intervals, 1, Len(intervals) - 1), amounts)
       IN  Append(before, [merchant_id |-> 1,
                           date |-> before[Len(before)].date + intervals[Len(intervals)],
                           amount |-> amounts[Len(before) + 1], pending |-> FALSE])

Evenly(n, days) == [i \in 1..n |-> days]

\* charges of one amount at every choice of intervals, charges of every choice
\* of amounts a week or a year apart, and four charges a month apart
CandidateLists ==
  {Numbered(Spaced(iv, Evenly(Len(iv) + 1, 1000)))
     : iv \in UNION {[1..k -> IntervalChoices] : k \in 1..(MaxList - 1)}}
    \cup {Numbered(Spaced(Evenly(Len(am) - 1, days), am))
            : days \in {7, 365}, am \in UNION {[1..k -> CandidateAmounts] : k \in 2..MaxList}}
    \cup {Numbered(Spaced(Evenly(3, 30), am)) : am \in [1..4 -> {1000, 1400}]}

\* detectRecurringCharges on the charges of one merchant
SpecCandidates ==
  InitPure("detectRecurringCharges", CandidateLists) /\ [][CallDetectRecurringCharges]_vars

\* descriptions and import names, short and long: the transaction id keeps 50
\* base64 characters, which hold 37 bytes of the text that is encoded
LongDescription ==
  <<"A","C","M","E"," ","S","T","R","E","A","M","I","N","G"," ","S","E","R","V","I","C","E","S">>

LongImportName ==
  <<"c","h","e","c","k","i","n","g","-","2","0","2","4","-","e","x","p","o","r","t",".","c","s","v">>

CsvRowShapes == [description : {rawZ, rawN, LongDescription}, date : IngestDates, amount : {1000, 1599}]

\* the rows at two different indices of one parsed file
CsvRowPairs ==
  [first : CsvRowShapes, second : CsvRowShapes,
   importName : ImportNames \cup {LongImportName},
   indices : {p \in (0..MaxRows) \X (0..MaxRows) : p[1] < p[2]}]

CallCsvTxId ==
  Returns("CsvTxId", << CsvTxId(probe.arg.first, probe.arg.importName, probe.arg.indices[1]),
                        CsvTxId(probe.arg.second, probe.arg.importName, probe.arg.indices[2]) >>)

\* the transaction ids of two rows of one import
SpecTxId == InitPure("CsvTxId", CsvRowPairs) /\ [][CallCsvTxId]_vars
(***************************************************************************)
(* Merchant resolution: properties                                         *)
(***************************************************************************)
AliasRows(raw) == {a \in merchant_aliases : a.raw_name = raw}

\* C1: calls made one after the other for the same raw name all return the
\* same merchant id, and afterwards exactly one alias row exists for the raw
\* name, whatever calls for other raw names ran before or between them.
C1_SameMerchantEveryTime ==
  \A r \in RawNames :
    hist[r].n >= 1 =>
      /\ Cardinality(hist[r].ids) = 1
      /\ Cardinality(AliasRows(r)) = 1

\* C1 witness: a raw name resolved twice, a merchant of another raw name present
C1_Witness ==
  \E r \in RawNames :
    /\ hist[r].n >= 2
    /\ Cardinality(merchants) >= 2
    /\ \E r2 \in RawNames \ {r} : hist[r2].n >= 1

C3_RacingCallsAgree ==
  \A p \in Procs :
    note[p].raced =>
      /\ call[p].pc # "threw"
      /\ \A q \in Procs \ {p} :
           ( /\ note[q].raced
             /\ call[q].rawName = call[p].rawName
             /\ note[p].noAlias /\ note[q].noAlias
             /\ call[p].pc = "returned" /\ call[q].pc = "returned" )
           => /\ call[p].merchantId = call[q].merchantId
              /\ note[p].created + note[q].created <= 1

\* C4: no two merchants have the same name, and no raw name is bound by alias
\* rows to more than one merchant.
C4_UniqueNamesAndAliases ==
  /\ \A m1, m2 \in merchants : m1.name = m2.name => m1 = m2
  /\ \A a, b \in merchant_aliases : a.raw_name = b.raw_name => a.merchant_id = b.merchant_id

\* C4 witness: two merchants, and two raw names bound to one of them, after
\* calls that overlapped
C4_Witness ==
  /\ Cardinality(merchants) >= 2
  /\ \E a, b \in merchant_aliases : a.raw_name # b.raw_name /\ a.merchant_id = b.merchant_id
  /\ \E p \in Procs : note[p].raced

\* C5: a call that found no alias creates at most one merchant row, and when
\* it has returned exactly one alias row exists for its raw name, pointing
\* to the merchant it returned.
C5_OneMerchantOneAlias ==
  \A p \in Procs :
    /\ note[p].created <= 1
    /\ (call[p].pc = "returned" /\ note[p].noAlias) =>
         AliasRows(call[p].rawName) =
           {[raw_name |-> call[p].rawName, merchant_id |-> call[p].merchantId]}

(***************************************************************************)
(* Ingestion with failing merchant resolution                              *)
(***************************************************************************)
\* the rows of transactions' that the step wrote
WrittenRows ==
  {i \in 1..Len(transactions') : i > Len(transactions) \/ transactions'[i] # transactions[i]}

HasNullMerchantRow(txs) == \E i \in 1..Len(txs) : txs[i].merchant_id = NULL

WithMerchant(txs) == SelectSeq(txs, LAMBDA tx : tx.merchant_id # NULL)

\* C6: in the CSV import loop and in the Plaid sync loop, when
\* findOrCreateMerchant throws for a transaction, the transaction is stored
\* with merchant_id null (no other row is lost or changed), the loop goes on
\* with the rest of the batch, and rows without a merchant contribute to no
\* candidate of detectRecurringCharges: the candidates are those of the rows
\* that have a merchant.
C6_ThrowKeepsRowAndBatch ==
  /\ [][ ((IngestCsvRow \/ SyncUpsert) /\ req'.merchantId = NULL) =>
           /\ \A i \in WrittenRows : transactions'[i].merchant_id = NULL
           /\ HasNullMerchantRow(transactions')
           /\ Cardinality(WrittenRows) <= 1
           /\ Len(transactions') >= Len(transactions)
           /\ req'.stage = "ingest" ]_vars
  /\ [](detectRecurringCharges(FetchTransactions(transactions))
          = detectRecurringCharges(FetchTransactions(WithMerchant(transactions))))

\* a row of the batch was resolved and stored after the resolution of an
\* earlier row of the batch threw
C6_Witness ==
  /\ req.stage = "ingest" /\ req.thrown /\ req.merchantId # NULL
  /\ HasNullMerchantRow(transactions)
  /\ \E i \in 1..Len(transactions) : transactions[i].merchant_id # NULL

(***************************************************************************)
(* Detection runs                                                          *)
(***************************************************************************)
SettledOf(mid) ==
  {transactions[i] : i \in {j \in 1..Len(transactions) :
                              /\ transactions[j].merchant_id = mid
                              /\ ~transactions[j].pending}}

LatestOf(mid) == {tx \in SettledOf(mid) : \A other \in SettledOf(mid) : other.date <= tx.date}

\* C7: when a request has run recurring detection and then price-change
\* detection, every active recurring charge carries as current_amount and
\* last_seen_at the amount and the date of the latest-dated non-pending
\* transaction of its merchant.
C7_ChargeFollowsLatestTransaction ==
  req.stage = "respond" =>
    \A rc \in recurring_charges :
      rc.is_active =>
        \E tx \in LatestOf(rc.merchant_id) :
          rc.current_amount = tx.amount /\ rc.last_seen_at = tx.date

StoredFor(rc, change) ==
  \E pc \in price_changes :
    /\ pc.recurring_charge_id = rc.id
    /\ pc.detected_at = ToISODate(change.detectedAt, env.tzAhead)

EventsOf(rc) ==
  LET changes == detectPriceChanges(FetchTransactions(transactions), rc)
  IN  {changes[i] : i \in 1..Len(changes)}

\* C8: price_changes holds at most one row per (recurring_charge_id,
\* detected_at), and when a run of runPriceChangeDetection is over every event
\* that detectPriceChanges emits for an active charge is stored (so that a
\* second run over the same data has nothing to add).
C8_EventsStoredOnce ==
  /\ \A a, b \in price_changes :
       (a.recurring_charge_id = b.recurring_charge_id /\ a.detected_at = b.detected_at)
         => a = b
  /\ req.stage = "respond" =>
       \A rc \in recurring_charges :
         rc.is_active => \A change \in EventsOf(rc) : StoredFor(rc, change)

\* C9: at every moment of a run of runPriceChangeDetection, the charges whose
\* events were stored are the charges that were updated from their events.
C9_EventsAndUpdateTogether == req.saved = req.updated

SameKey(a, b) == a.merchant_id = b.merchant_id /\ a.frequency = b.frequency

\* C10: a run of runRecurringDetection that follows a run with no write to
\* transactions or recurring_charges in between leaves recurring_charges as
\* the first run left it, and recurring_charges never holds two rows with the
\* same merchant_id and frequency.
C10_RecurringDetectionIdempotent ==
  /\ [][ (req.stage = "recurring" /\ req'.stage = "price_fetch" /\ rcFresh >= 1)
           => recurring_charges' = recurring_charges ]_vars
  /\ [](\A a, b \in recurring_charges : SameKey(a, b) => a = b)

\* recurring detection has run twice in a row and holds a charge
C10_Witness == rcFresh = 2 /\ recurring_charges # {}

(***************************************************************************)
(* The pure functions                                                      *)
(***************************************************************************)
SettledIn(txs, mid) ==
  {txs[i] : i \in {j \in 1..Len(txs) : txs[j].merchant_id = mid /\ ~txs[j].pending}}

\* C11: detectRecurringCharges emits at most one candidate per merchant_id,
\* only for a merchant with at least 2 non-pending transactions; firstAmount
\* and firstDate are those of an earliest-dated non-pending transaction of the
\* merchant, currentAmount and lastDate those of a latest-dated one, and
\* transactionCount is the number of its non-pending transactions.  Four
\* monthly charges 15.99, 15.99, 17.99, 17.99 give one monthly candidate with
\* confidence >= 0.5, first 15.99, current 17.99 and count 4.
C11_OneCandidatePerMerchant ==
  Returned("detectRecurringCharges") =>
    LET txs == probe.arg
        out == probe.out
    IN  /\ \A i, j \in 1..Len(out) : out[i].merchantId = out[j].merchantId => i = j
        /\ \A i \in 1..Len(out) :
             LET c == out[i]
                 settled == SettledIn(txs, c.merchantId)
             IN  /\ c.merchantId # NULL
                 /\ Cardinality(settled) >= 2
                 /\ c.transactionCount = Cardinality(settled)
                 /\ \E tx \in settled :
                      /\ \A other \in settled : tx.date <= other.date
                      /\ c.firstAmount = tx.amount /\ c.firstDate = tx.date
                 /\ \E tx \in settled :
                      /\ \A other \in settled : other.date <= tx.date
                      /\ c.currentAmount = tx.amount /\ c.lastDate = tx.date
        /\ txs = MonthlyExample =>
             /\ Len(out) = 1
             /\ out[1].frequency = "monthly"
             /\ 2 * out[1].confidence[1] >= out[1].confidence[2]
             /\ out[1].firstAmount = 1599 /\ out[1].currentAmount = 1799
             /\ out[1].transactionCount = 4

\* the four monthly charges have been given to detectRecurringCharges
C11_Witness ==
  Returned("detectRecurringCharges") /\ probe.arg = MonthlyExample /\ probe.out # <<>>

\* the events of a list that were detected on transaction tx
EventsOn(out, tx) == {k \in 1..Len(out) : out[k].transactionId = tx.id}

\* C12: detectPriceChanges walks the non-pending transactions of the charge's
\* merchant in ascending date order; an adjacent pair prev, curr gives exactly
\* one event (previousAmount = prev, newAmount = curr, changeAmount = curr -
\* prev, changePercent = change / prev x 100) when prev is not 0 and
\* |change / prev x 100| > 1, and no event otherwise, whatever the signs of the
\* amounts; the events come out in non-decreasing detectedAt order; the four
\* monthly charges 15.99, 15.99, 17.99, 17.99 give the one event 15.99 -> 17.99.
C12_OneEventPerChangedPair ==
  Returned("detectPriceChanges") =>
    LET rc     == probe.arg.recurringCharge
        out    == probe.out
        walked == SortByDate(SelectSeq(probe.arg.transactions,
                                       LAMBDA tx : tx.merchant_id = rc.merchant_id
                                                   /\ ~tx.pending))
    IN  /\ \A i \in 2..Len(walked) :
             LET prev   == walked[i - 1].amount
                 curr   == walked[i].amount
                 change == curr - prev
                 events == EventsOn(out, walked[i])
             IN  IF prev # 0 /\ Abs(change) * 100 > Abs(prev)
                 THEN /\ Cardinality(events) = 1
                      /\ \A k \in events :
                           /\ out[k].previousAmount = prev
                           /\ out[k].newAmount = curr
                           /\ out[k].changeAmount = change
                           /\ out[k].changePercent[1] * prev
                                = change * 100 * out[k].changePercent[2]
                           /\ out[k].detectedAt = walked[i].date
                 ELSE events = {}
        /\ Len(walked) >= 1 => EventsOn(out, walked[1]) = {}
        /\ \A k \in 1..Len(out) : \E i \in 1..Len(walked) : out[k].transactionId = walked[i].id
        /\ \A k \in 2..Len(out) : out[k - 1].detectedAt <= out[k].detectedAt
        /\ probe.arg.transactions = MonthlyExample =>
             /\ Len(out) = 1
             /\ out[1].previousAmount = 1599 /\ out[1].newAmount = 1799


\* Day number of the date k months after day number d of 2024.
AddMonths(d, k) ==
  LET md == MonthAndDay(1, d) IN MonthStart(md[1] + k) + md[2] - 1

\* The number of whole months that fit between two dates, from <= to.
MonthsBetween(from, to) ==
  CHOOSE k \in 0..(12 - MonthAndDay(1, from)[1]) :
    AddMonths(from, k) <= to /\ to < AddMonths(from, k + 1)

WholeMonths(from, to) ==
  IF to >= from THEN MonthsBetween(from, to) ELSE -MonthsBetween(to, from)

About(x, hundredths, unit) ==
  x.kind = "number" /\ x.lo >= hundredths - unit /\ x.hi <= hundredths + unit

\* C14 as stated: for 15.99 -> 17.99 between 2024-01-15 and 2024-04-15,
\* months_tracked is 3, percent_change is about 12.51 and
\* annualized_increase is about 63.9.
C14_DriftExample ==
  (Returned("calculateDriftMetrics") /\ probe.arg = DriftExample) =>
    /\ probe.out.monthsTracked = 3
    /\ About(Exactly((probe.out.percentChange[1] * 100)
                          \div probe.out.percentChange[2]), 1251, 1)
    /\ About(probe.out.annualizedIncrease, 6390, 10)

\* C14 amended: for 15.99 -> 17.99 between 2024-01-15 and 2024-04-15,
\* months_tracked is 3, percent_change is about 12.51 and
\* annualized_increase = ((17.99/15.99)^(12/3) - 1) x 100 is about 60.2.
C14_DriftExampleAmended ==
  (Returned("calculateDriftMetrics") /\ probe.arg = DriftExample) =>
    /\ probe.out.monthsTracked = 3
    /\ About(Exactly((probe.out.percentChange[1] * 100)
                          \div probe.out.percentChange[2]), 1251, 1)
    /\ About(probe.out.annualizedIncrease, 6020, 10)

C14_Witness ==
  /\ Returned("calculateDriftMetrics")
  /\ probe.arg = DriftExample
  /\ probe.out.annualizedIncrease.lo > 0

\* C15: normalizeMerchantName strips the payment-processor prefix and the
\* store number before known-brand matching and title-casing, so a
\* description with them normalizes as its merchant text alone does:
\* "SQ *COFFEE SHOP #123" gives "Coffee Shop", "NETFLIX.COM" gives
\* "Netflix" and "SPOTIFY USA" gives "Spotify".
C15_PrefixAndStoreNumberStripped ==
  Returned("normalizeMerchantName") =>
    /\ probe.arg = SquareExample => probe.out = <<"C", "o", "f", "f", "e", "e", " ", "S", "h", "o", "p">>
    /\ probe.arg = NetflixExample => probe.out = <<"N", "e", "t", "f", "l", "i", "x">>
    /\ probe.arg = SpotifyExample => probe.out = <<"S", "p", "o", "t", "i", "f", "y">>
    /\ probe.arg.suffix \in {<<>>, <<" ", "#", "1", "2", "3">>, <<" ", "#", "7">>} =>
         probe.out = normalizeMerchantName(probe.arg.text)

\* The rows of the parsed file, the transactions returned for row i and
\* the messages recorded for it (line i of the file, the header being 0).
TxOfRow(i) ==
  { k \in 1..Len(probe.out.transactions) : probe.out.transactions[k].rawLine = i }

ErrorsOfRow(i) ==
  { k \in 1..Len(probe.out.errors) : probe.out.errors[k].row = i + 1 }

DebitOf(fields) == parseAmount(FieldOr(fields, 2, <<"0">>))

CreditOf(fields) == parseAmount(FieldOr(fields, 3, <<"0">>))

\* C16: with separate debit and credit columns, a row with a positive
\* debit yields a transaction with that amount, and a row whose only
\* positive value is in the credit column yields no transaction.
C16_CreditRowsExcluded ==
  (Returned("parseCSV") /\ probe.arg.headers = DebitCreditHeaders) =>
    \A i \in 1..Len(probe.arg.rows) :
      LET debit  == DebitOf(probe.arg.rows[i])
          credit == CreditOf(probe.arg.rows[i])
      IN  /\ (debit.ok /\ debit.value > 0) =>
               \E k \in TxOfRow(i) : probe.out.transactions[k].amount = debit.value
          /\ (~(debit.ok /\ debit.value > 0) /\ credit.ok /\ credit.value > 0) =>
               TxOfRow(i) = {}

\* A cell holds a valid calendar date in a supported format.
ValidCalendarDate(cell) ==
  parseDate(cell).ok /\ ~TimeValue(parseDate(cell).value).nan

\* The cell or cells a row's amount is read from.
AmountCellsOf(headers, fields) ==
  IF headers = DebitCreditHeaders
  THEN {FieldOr(fields, 2, <<>>), FieldOr(fields, 3, <<>>)}
  ELSE {FieldOr(fields, 2, <<>>)}

\* C17: each data row either appends one transaction or increments
\* skipped, so transactions + skipped is the number of data rows; a row
\* gets an error message exactly when its date is not a valid calendar
\* date in a supported format or an amount cell of it is non-empty but
\* unparsable, and none when its description is empty or its amount zero.
C17_OneOutcomePerRow ==
  Returned("parseCSV") =>
    /\ Len(probe.out.transactions) + probe.out.skipped = Len(probe.arg.rows)
    /\ \A i \in 1..Len(probe.arg.rows) :
         LET fields == probe.arg.rows[i]
             badDate == ~ValidCalendarDate(fields[1])
             badAmount == \E c \in AmountCellsOf(probe.arg.headers, fields) :
                            c # <<>> /\ ~parseAmount(c).ok
         IN  /\ Cardinality(TxOfRow(i)) + Cardinality(ErrorsOfRow(i)) <= 1
             /\ ErrorsOfRow(i) # {} <=> (badDate \/ (fields[2] # <<>> /\ badAmount))

\* date a is not after date b, comparing year, month and day as numbers
DateLeq(a, b) ==
  LET n(d) == parseInt(SubSeq(d, 1, 4)) * 10000 + parseInt(SubSeq(d, 6, 7)) * 100
                + parseInt(SubSeq(d, 9, 10))
  IN  n(a) <= n(b)

\* C18: the transactions parseCSV returns are in non-decreasing date
\* order, whatever the order of the rows in the file.
C18_SortedByDate ==
  Returned("parseCSV") =>
    \A k \in 1..(Len(probe.out.transactions) - 1) :
      DateLeq(probe.out.transactions[k].date, probe.out.transactions[k + 1].date)

ParenthesisedCell == <<"(", "$", "1", "2", ".", "3", "4", ")">>

MinusCell == <<"-", "1", "2", ".", "3", "4">>

PlainCell == <<"1", "2", ".", "3", "4">>

\* C19: every transaction parseCSV returns has a strictly positive amount,
\* the absolute value of the parsed amount cell; a row whose amount cell
\* is "($12.34)", "-12.34" or "12.34" (and whose date and description are
\* accepted) gives amount 12.34.
C19_AmountsPositiveAbsolute ==
  Returned("parseCSV") =>
    /\ \A k \in 1..Len(probe.out.transactions) :
         LET tx == probe.out.transactions[k]
         IN  /\ tx.amount > 0
             /\ \E c \in AmountCellsOf(probe.arg.headers, probe.arg.rows[tx.rawLine]) :
                  parseAmount(c).ok /\ tx.amount = Abs(parseAmount(c).value)
    /\ \A i \in 1..Len(probe.arg.rows) :
         (/\ probe.arg.headers = AmountHeaders
          /\ parseDate(probe.arg.rows[i][1]).ok
          /\ probe.arg.rows[i][2] # <<>>
          /\ probe.arg.rows[i][3] \in {ParenthesisedCell, MinusCell, PlainCell}) =>
           \E k \in TxOfRow(i) : probe.out.transactions[k].amount = 1234

C19_Witness ==
  /\ Returned("parseCSV")
  /\ \E i \in 1..Len(probe.arg.rows) :
       /\ probe.arg.headers = AmountHeaders
       /\ probe.arg.rows[i][3] = ParenthesisedCell
       /\ \E k \in TxOfRow(i) : probe.out.transactions[k].amount = 1234

\* C20: a merchant or a recurring charge is hard-deleted only by the
\* clean-up of an account deletion, and only for a merchant that has no
\* transaction left; deleting the account removes all its transactions;
\* the clean-up of a merchant without transactions removes its price
\* changes, recurring charges, aliases and the merchant row, and the
\* clean-up of a merchant that still has transactions deletes nothing and
\* sets its recurring charges inactive.
C20_HardDeleteOnlyWhenOrphaned ==
  [][ LET goneMerchants == {m.id : m \in merchants} \ {m.id : m \in merchants'}
          goneCharges == {rc \in recurring_charges :
                            \A x \in recurring_charges' : x.id # rc.id}
          touched == goneMerchants \cup {rc.merchant_id : rc \in goneCharges}
      IN  /\ touched # {} =>
               /\ del.stage = "orphan"
               /\ touched \subseteq {del.cur}
               /\ TransactionsOf(del.cur) = {}
          /\ (del.stage = "delete_account" /\ del'.stage = "cleanup") =>
               \A i \in 1..Len(transactions') : transactions'[i].account_id # del.accountId
          /\ (del.stage = "orphan" /\ del'.stage = "cleanup") =>
               /\ \A m \in merchants' : m.id # del.cur
               /\ \A a \in merchant_aliases' : a.merchant_id # del.cur
               /\ \A rc \in recurring_charges' : rc.merchant_id # del.cur
               /\ \A pc \in price_changes' : pc.merchant_id # del.cur
          /\ (del.stage = "deactivate" /\ del'.stage = "cleanup") =>
               /\ UNCHANGED <<merchants, merchant_aliases, price_changes>>
               /\ {rc.id : rc \in recurring_charges'} = {rc.id : rc \in recurring_charges}
               /\ \A rc \in recurring_charges' : rc.merchant_id = del.cur => ~rc.is_active
    ]_vars

(***************************************************************************)
(* Detection: frequency, amount consistency and confidence                 *)
(***************************************************************************)
\* the dates of a set of transactions in ascending order
RECURSIVE Ascending(_)
Ascending(S) ==
  IF S = {} THEN <<>>
  ELSE LET tx == CHOOSE t \in S : \A o \in S : t.date <= o.date
       IN  <<tx.date>> \o Ascending(S \ {tx})

\* the consecutive-day intervals of a set of transactions
Gaps(S) ==
  LET d == Ascending(S) IN [i \in 1..(Len(d) - 1) |-> d[i + 1] - d[i]]

\* the frequency buckets: day range and weight in tenths
Buckets ==
  { [frequency |-> "weekly",    lo |-> 5,   hi |-> 9,   tenths |-> 10],
    [frequency |-> "biweekly",  lo |-> 12,  hi |-> 16,  tenths |-> 10],
    [frequency |-> "monthly",   lo |-> 27,  hi |-> 35,  tenths |-> 12],
    [frequency |-> "quarterly", lo |-> 85,  hi |-> 100, tenths |-> 8],
    [frequency |-> "yearly",    lo |-> 355, hi |-> 375, tenths |-> 6] }

\* (fraction of the intervals inside the bucket's range) x weight, as a fraction
Score(gaps, b) ==
  << Cardinality({i \in 1..Len(gaps) : gaps[i] >= b.lo /\ gaps[i] <= b.hi}) * b.tenths,
     10 * Len(gaps) >>

\* the mean of the intervals lies in the bucket's range and the score is >= 0.5
Qualifies(gaps, b) ==
  /\ Len(gaps) > 0
  /\ Sum(gaps) >= b.lo * Len(gaps)
  /\ Sum(gaps) <= b.hi * Len(gaps)
  /\ 2 * Score(gaps, b)[1] >= Score(gaps, b)[2]

CandidatesFor(out, mid) == {k \in 1..Len(out) : out[k].merchantId = mid}

\* C22: detectRecurringCharges gives a merchant group the frequency F only if
\* the mean of its consecutive-day intervals lies in F's day range and
\* (fraction of intervals inside the range) x weight(F) >= 0.5, with weekly
\* [5,9] x 1.0, biweekly [12,16] x 1.0, monthly [27,35] x 1.2, quarterly
\* [85,100] x 0.8, yearly [355,375] x 0.6; a group whose mean lies in no range
\* (two charges 45 days apart), or whose score is below 0.5, gives no candidate.
C22_FrequencyByMeanAndScore ==
  Returned("detectRecurringCharges") =>
    LET txs == probe.arg
        out == probe.out
    IN  \A mid \in {tx.merchant_id : tx \in {txs[i] : i \in 1..Len(txs)}} :
          LET gaps == Gaps(SettledIn(txs, mid))
          IN  /\ \A k \in CandidatesFor(out, mid) :
                   \E b \in Buckets : b.frequency = out[k].frequency /\ Qualifies(gaps, b)
              /\ (\A b \in Buckets : ~Qualifies(gaps, b)) => CandidatesFor(out, mid) = {}
              /\ gaps = <<45>> => CandidatesFor(out, mid) = {}

\* a yearly candidate has been emitted for charges 355 and 375 days apart
C22_Witness ==
  /\ Returned("detectRecurringCharges")
  /\ Gaps(SettledIn(probe.arg, 1)) = <<355, 375>>
  /\ \E k \in CandidatesFor(probe.out, 1) : probe.out[k].frequency = "yearly"

\* the number of amounts of a group within 15% relative deviation of the
\* group's mean amount (the mean is total / n)
WithinFifteenPercent(amounts) ==
  LET n == Len(amounts)
      total == Sum(amounts)
  IN  Cardinality({i \in 1..n : total # 0 /\ 100 * Abs(amounts[i] * n - total) <= 15 * Abs(total)})

AmountsIn(txs, mid) ==
  LET settled == SelectSeq(txs, LAMBDA tx : tx.merchant_id = mid /\ ~tx.pending)
  IN  [i \in 1..Len(settled) |-> settled[i].amount]

\* C23: for every merchant group of non-pending amounts, signed or unsigned,
\* with a zero or negative mean too, detectRecurringCharges emits a candidate
\* only if at least 70% of the amounts are within 15% relative deviation of
\* the group's mean amount.
C23_SeventyPercentWithinTolerance ==
  Returned("detectRecurringCharges") =>
    \A k \in 1..Len(probe.out) :
      LET amounts == AmountsIn(probe.arg, probe.out[k].merchantId)
      IN  10 * WithinFifteenPercent(amounts) >= 7 * Len(amounts)

\* C24: every candidate emitted by detectRecurringCharges has confidence =
\* min(1, frequency_score + 0.2 x consistency_ratio), frequency_score being
\* the weighted score of the candidate's bucket and consistency_ratio the
\* fraction of the amounts within 15% of the mean; the value lies in [0.5, 1].
C24_ConfidenceFormula ==
  Returned("detectRecurringCharges") =>
    \A k \in 1..Len(probe.out) :
      LET c       == probe.out[k]
          amounts == AmountsIn(probe.arg, c.merchantId)
          b       == CHOOSE x \in Buckets : x.frequency = c.frequency
          score   == Score(Gaps(SettledIn(probe.arg, c.merchantId)), b)
          ratio   == <<2 * WithinFifteenPercent(amounts), 10 * Len(amounts)>>
          sum     == <<score[1] * ratio[2] + ratio[1] * score[2], score[2] * ratio[2]>>
          capped  == IF sum[1] < sum[2] THEN sum ELSE <<1, 1>>
      IN  /\ c.confidence[1] * capped[2] = capped[1] * c.confidence[2]
          /\ 2 * c.confidence[1] >= c.confidence[2]
          /\ c.confidence[1] <= c.confidence[2]

(***************************************************************************)
(* Merchant resolution of one call                                         *)
(***************************************************************************)
\* 1 - editDistance / max(len) on the lowercased alphanumeric-only names of
\* the texts of single calls, as fractions
SimilarityTable ==
  [a \in {NormalizedName[r] : r \in LookupTexts},
   b \in {NormalizedName[r] : r \in LookupTexts} |-> calculateSimilarity(a, b)]

Above80(a, b) == 10 * SimilarityTable[a, b][1] > 8 * SimilarityTable[a, b][2]

\* C25: for a raw_name with no stored alias, findOrCreateMerchant returns the
\* merchant whose name equals the normalized name if there is one; otherwise,
\* if some merchant has similarity strictly greater than 0.80 to the
\* normalized name, it returns an existing merchant with similarity > 0.80
\* and creates none (a merchant at exactly 0.80 is not reused); otherwise it
\* creates a new merchant named with the normalized name and returns it.
C25_NameThenSimilarThenCreate ==
  (Returned("findOrCreateMerchant")
     /\ \A a \in probe.arg.merchant_aliases : a.raw_name # probe.arg.rawName) =>
    LET before  == probe.arg.merchants
        name    == NormalizedName[probe.arg.rawName]
        named   == {m \in before : m.name = name}
        similar == {m \in before : Above80(name, m.name)}
        id      == probe.out.merchantId
    IN  /\ probe.out.pc = "returned"
        /\ IF named # {} THEN merchants = before /\ id \in {m.id : m \in named}
           ELSE IF similar # {} THEN merchants = before /\ id \in {m.id : m \in similar}
           ELSE /\ id \notin {m.id : m \in before}
                /\ merchants = before \cup {[id |-> id, name |-> name]}

\* a call found only a merchant at similarity exactly 0.80 and created another
C25_Witness ==
  /\ Returned("findOrCreateMerchant")
  /\ probe.arg.merchant_aliases # {}
  /\ \A a \in probe.arg.merchant_aliases : a.raw_name # probe.arg.rawName
  /\ \E m \in probe.arg.merchants :
       LET sim == SimilarityTable[NormalizedName[probe.arg.rawName], m.name]
       IN  10 * sim[1] = 8 * sim[2]
  /\ Cardinality(merchants) = Cardinality(probe.arg.merchants) + 1

(***************************************************************************)
(* Order of the input                                                      *)
(***************************************************************************)
\* C26: detectRecurringCharges and detectPriceChanges depend only on the
\* multiset of input transactions, not on their order: every permutation of
\* the input list gives the same sequence of events (and the same set of
\* candidates), also when two transactions of a merchant share a date.
C26_OrderIndependent ==
  Returned("detectPriceChanges") =>
    \A reordered \in Reorderings(probe.arg.transactions) :
      detectPriceChanges(reordered, probe.arg.recurringCharge) = probe.out

(***************************************************************************)
(* Transaction ids of a CSV import                                         *)
(***************************************************************************)
\* C27: within one CSV import, rows at different indices of the parsed file
\* get different transaction ids (so each parsed row is stored as its own
\* transaction), also for rows with identical date, amount and description
\* and for long descriptions or import names.
C27_RowsGetDifferentIds ==
  Returned("CsvTxId") => probe.out[1] # probe.out[2]

(***************************************************************************)
(* Stored recurring charges against the current transactions               *)
(***************************************************************************)
\* C28: when a detection run has saved its candidates (after any sequence of
\* syncs, imports, removals and earlier runs), every active recurring_charges
\* row matches a candidate that detectRecurringCharges emits for the current
\* transactions (same merchant_id and frequency), so no merchant has a stale
\* active row and each merchant has at most one active recurring charge.
C28_ActiveChargesAreCurrent ==
  [][ (req.stage = "recurring" /\ req'.stage = "price_fetch") =>
        LET detected == detectRecurringCharges(FetchTransactions(transactions'))
            active   == {rc \in recurring_charges' : rc.is_active}
        IN  /\ \A rc \in active :
                 \E k \in 1..Len(detected) : /\ detected[k].merchantId = rc.merchant_id
                                             /\ detected[k].frequency = rc.frequency
            /\ \A a, b \in active : a.merchant_id = b.merchant_id => a = b
    ]_vars

(***************************************************************************)
(* Excluded merchants                                                      *)
(***************************************************************************)
\* C29: once a merchant has been excluded through the exclude route, all its
\* recurring charges are and stay inactive through any later runs of
\* recurring detection and price-change detection, until the merchant is
\* un-excluded.
C29_ExcludedStaysInactive ==
  \A rc \in recurring_charges : rc.merchant_id \in excluded => ~rc.is_active

(***************************************************************************)
(* Paged sync of the accounts of one Plaid item                            *)
(***************************************************************************)
\* C30: after sync-transactions completes for a user with several linked
\* accounts of one Plaid item, every stored transaction's account_id is the id
\* of the account row whose plaid_account_id is the account the transaction
\* belongs to in Plaid.
C30_RowsBelongToTheirAccount ==
  req.kind = "sync" /\ req.stage = "respond" =>
    \A i \in 1..Len(transactions) :
      \E a \in accounts :
        /\ a.id = transactions[i].account_id
        /\ a.plaid_account_id = PlaidAccountOf(transactions[i].plaid_transaction_id)

\* the accounts rows change only where the cursor of the account being synced
\* is stored, after the page without has_more; a request that ends early
\* changes none
CursorStoredAfterLastPage ==
  [][ /\ (req.stage \in {"fetch_page", "apply_page", "store_cursor"} /\ req'.stage = "idle"
            => accounts' = accounts)
      /\ (accounts' # accounts
            => /\ req.stage = "store_cursor" /\ req.calls = <<>> /\ ~req.hasMore
               /\ req.nextCursor = Len(env.feed)
               /\ \A a \in accounts : a.id # req.accountId => a \in accounts')
    ]_vars

SyncedTables ==
  UninterruptedSync(1, 2, env) \cup UninterruptedSync(2, 1, env)

ResumedSyncStoresTheSame ==
  req.kind = "sync" /\ req.stage = "recurring" =>
    \E s \in SyncedTables :
      /\ WithoutIds(transactions) = WithoutIds(s.rows)
      /\ Len(transactions) = Len(s.rows)

\* C21: a sync that fails part-way through the pages of an account leaves that
\* account's sync_cursor as it was (the cursor is stored only after the last
\* page), and when a later sync has run to its end the stored transactions are
\* those of one sync that nothing interrupted.
C21_InterruptedThenSynced ==
  /\ CursorStoredAfterLastPage
  /\ []ResumedSyncStoresTheSame

\* a sync has run to its end after an interrupted one had inserted rows that
\* were removed again: more row ids are used than any uninterrupted sync uses
C21_Witness ==
  /\ req.kind = "sync" /\ req.stage = "recurring"
  /\ transactions # <<>>
  /\ \A s \in SyncedTables : nextTxId > s.txnid
====
